---- MODULE Spec2Model ----
(***************************************************************************)
(* Verification model of the beeb/aoc-2024 Day Units (src/src/days).       *)
(*                                                                         *)
(* A run of a Day Unit is the pipeline parser -> part_1 -> part_2 over one *)
(* raw text.  The state holds the raw text, the parsed value that the      *)
(* parts borrow, the locals of the phase in progress and the outcomes.     *)
(* Every method that takes `&mut self` is an operator that returns the     *)
(* record [self |-> the receiver after the call, ret |-> the value], and   *)
(* every part returns [input |-> the borrowed parsed value after the call, *)
(* out |-> the outcome], so that frame conditions are checked and not      *)
(* assumed.  A panic is the outcome Panic.                                 *)
(***************************************************************************)
EXTENDS Integers, Sequences, FiniteSets, TLC

VARIABLES
    day,    \* the Day Unit being run
    raw,    \* the raw input text (day-specific shape)
    input,  \* the parsed value (Self::Input), borrowed by the parts
    work,   \* the locals of the phase in progress
    pc,     \* the phase of the run
    out1,   \* outcome of part_1
    out2    \* outcome of part_2

vars == <<day, raw, input, work, pc, out1, out2>>

(***************************************************************************)
(* Common encodings                                                        *)
(***************************************************************************)
\* Option<T>: None is the empty sequence, Some(v) the one-element sequence.
None == <<>>
Some(v) == <<v>>

\* An outcome that is a panic (failed unwrap, unreachable!, index out of range).
Panic == [kind |-> "panic"]
\* An outcome that is a value.
Value(v) == [kind |-> "value", v |-> v]
\* Placeholder of a variable that holds nothing in the current phase.
Nothing == [kind |-> "nothing"]

\* HashMap::default() / HashSet::default(): the empty map.
EmptyMap == [k \in {} |-> k]

\* Insert or overwrite one key of a map.
MapPut(m, k, v) == (k :> v) @@ m

(***************************************************************************)
(* Day 06: guard patrol                                                    *)
(***************************************************************************)
\* Side of the patrolled square (130 in the source; the model walks a smaller square).
D06_GRID_SIZE == 10

D06_Directions == {"Up", "Right", "Down", "Left"}

D06_turn_right(dir) ==
    CASE dir = "Up" -> "Right"
      [] dir = "Right" -> "Down"
      [] dir = "Down" -> "Left"
      [] dir = "Left" -> "Up"

D06_point_in_dir(x, y, dir) ==
    CASE dir = "Up" -> IF y = 0 THEN None ELSE Some(<<x, y - 1>>)
      [] dir = "Right" -> IF x = D06_GRID_SIZE - 1 THEN None ELSE Some(<<x + 1, y>>)
      [] dir = "Down" -> IF y = D06_GRID_SIZE - 1 THEN None ELSE Some(<<x, y + 1>>)
      [] dir = "Left" -> IF x = 0 THEN None ELSE Some(<<x - 1, y>>)

\* State::default()
D06_State_default ==
    [obstacles |-> {}, visited |-> EmptyMap, init_pos |-> <<0, 0>>,
     guard |-> [x |-> 0, y |-> 0, dir |-> "Up"]]

\* A copy of register_visited that reports a tile as seen whatever the direction was.
D06_register_visited_AnyDir(self, x, y, dir) ==
    IF <<x, y>> \in DOMAIN self.visited
    THEN [self |-> [self EXCEPT !.visited[<<x, y>>] = @ \cup {dir}], ret |-> FALSE]
    ELSE [self |-> [self EXCEPT !.visited = MapPut(@, <<x, y>>, {dir})], ret |-> TRUE]

D06_register_visited(self, x, y, dir) ==
    IF <<x, y>> \in DOMAIN self.visited
    THEN IF dir \notin self.visited[<<x, y>>]
         THEN [self |-> [self EXCEPT !.visited[<<x, y>>] = @ \cup {dir}], ret |-> TRUE]
         ELSE [self |-> self, ret |-> FALSE]
    ELSE [self |-> [self EXCEPT !.visited = MapPut(@, <<x, y>>, {dir})], ret |-> TRUE]

\* ret is "None" (loop), "SomeTrue" (advanced or turned) or "SomeFalse" (left the area).
D06_advance(self) ==
    LET p == D06_point_in_dir(self.guard.x, self.guard.y, self.guard.dir) IN
    IF p # None
    THEN IF p[1] \in self.obstacles
         THEN LET s1 == [self EXCEPT !.guard.dir = D06_turn_right(@)]
                  r == D06_register_visited(s1, s1.guard.x, s1.guard.y, s1.guard.dir)
              IN  [self |-> r.self, ret |-> IF r.ret THEN "SomeTrue" ELSE "None"]
         ELSE LET s1 == [self EXCEPT !.guard.x = p[1][1], !.guard.y = p[1][2]]
                  r == D06_register_visited(s1, p[1][1], p[1][2], s1.guard.dir)
              IN  [self |-> r.self, ret |-> IF r.ret THEN "SomeTrue" ELSE "None"]
    ELSE [self |-> self, ret |-> "SomeFalse"]

\* Every advance that returns Some(true) registers a (tile, direction) pair that was
\* not registered before, so a loop over advance makes at most this many calls.
D06_MaxAdvances == 4 * D06_GRID_SIZE * D06_GRID_SIZE + 1

\* At most n further calls of advance after the call that returned r, stopping at
\* the first call that does not return Some(true).
RECURSIVE D06_advance_n(_, _)
D06_advance_n(r, n) ==
    IF r.ret # "SomeTrue" \/ n = 0 THEN r
    ELSE IF n = 1 THEN D06_advance(r.self)
    ELSE D06_advance_n(D06_advance_n(r, n \div 2), n - (n \div 2))

\* The loop `match state.advance()` / `while let Some(true) = state.advance() {}`:
\* advance until the call does not return Some(true); the result is that last call.
D06_advance_loop(state) ==
    D06_advance_n([self |-> state, ret |-> "SomeTrue"], D06_MaxAdvances)

\* A copy of loops_with_obstacle_begin that inserts into the receiver, not into the clone.
D06_loops_with_obstacle_begin_Shared(self, extra_obstacle) ==
    LET s == [self EXCEPT !.obstacles = @ \cup {extra_obstacle}] IN
    [self |-> s, state |-> s]

\* First two statements of loops_with_obstacle: the private clone with the extra obstacle.
D06_loops_with_obstacle_begin(self, extra_obstacle) ==
    [self |-> self, state |-> [self EXCEPT !.obstacles = @ \cup {extra_obstacle}]]

D06_loops_with_obstacle(self, extra_obstacle) ==
    LET b == D06_loops_with_obstacle_begin(self, extra_obstacle) IN
    [self |-> b.self, ret |-> D06_advance_loop(b.state).ret = "None"]

\* parse_line: the (x, symbol) pairs of the non-empty tiles of one row, in order of x.
D06_parse_line(row) ==
    SelectSeq([i \in 1..Len(row) |-> <<i - 1, row[i]>>], LAMBDA c : c[2] # ".")

\* The body of the inner `for (x, cell) in line` loop of the parser.
D06_parser_cell(puzzle, x, y, cell) ==
    CASE cell = "#" -> [puzzle EXCEPT !.obstacles = @ \cup {<<x, y>>}]
      [] cell = "^" -> [puzzle EXCEPT !.guard = [x |-> x, y |-> y, dir |-> "Up"]]
      [] cell = ">" -> [puzzle EXCEPT !.guard = [x |-> x, y |-> y, dir |-> "Right"]]
      [] cell = "v" -> [puzzle EXCEPT !.guard = [x |-> x, y |-> y, dir |-> "Down"]]
      [] cell = "<" -> [puzzle EXCEPT !.guard = [x |-> x, y |-> y, dir |-> "Left"]]

RECURSIVE D06_parser_line(_, _, _, _)
D06_parser_line(puzzle, cells, i, y) ==
    IF i > Len(cells) THEN puzzle
    ELSE D06_parser_line(D06_parser_cell(puzzle, cells[i][1], y, cells[i][2]), cells, i + 1, y)

RECURSIVE D06_parser_lines(_, _, _)
D06_parser_lines(puzzle, lines, j) ==
    IF j > Len(lines) THEN puzzle
    ELSE D06_parser_lines(D06_parser_line(puzzle, D06_parse_line(lines[j]), 1, j - 1), lines, j + 1)

\* Day06::parser on a text given as its rows (the text split at the line endings).
D06_parser(text) ==
    LET p1 == D06_parser_lines(D06_State_default, text, 1)
        p2 == [p1 EXCEPT !.init_pos = <<p1.guard.x, p1.guard.y>>]
    IN  D06_register_visited(p2, p2.guard.x, p2.guard.y, p2.guard.dir).self

\* A copy of part_1 that walks the borrowed input itself instead of a clone.
D06_part_1_InPlace(inp) ==
    LET state == D06_advance_loop(inp).self IN
    [input |-> state, out |-> Value(Cardinality(DOMAIN state.visited))]

D06_part_1(inp) ==
    LET state == D06_advance_loop(inp).self IN
    [input |-> inp, out |-> Value(Cardinality(DOMAIN state.visited))]

\* The filter closure of part_2 for one visited key.
D06_part_2_filter(inp, state, pos) ==
    IF pos # state.init_pos
    THEN D06_loops_with_obstacle(inp, pos)
    ELSE [self |-> inp, ret |-> FALSE]

\* filter(..).count() over the keys, one candidate after another; n counts the hits.
RECURSIVE D06_part_2_count(_, _, _, _)
D06_part_2_count(inp, state, keys, n) ==
    IF keys = {} THEN [input |-> inp, n |-> n]
    ELSE LET pos == CHOOSE k \in keys : TRUE
             r == D06_part_2_filter(inp, state, pos)
         IN  IF r.ret
             THEN D06_part_2_count(r.self, state, keys \ {pos}, n + 1)
             ELSE D06_part_2_count(r.self, state, keys \ {pos}, n)

D06_part_2(inp) ==
    LET state == D06_advance_loop(inp).self
        c == D06_part_2_count(inp, state, DOMAIN state.visited, 0)
    IN  [input |-> c.input, out |-> Value(c.n)]

\* The example of the tests module.
D06_INPUT ==
    << <<".", ".", ".", ".", "#", ".", ".", ".", ".", ".">>,
       <<".", ".", ".", ".", ".", ".", ".", ".", ".", "#">>,
       <<".", ".", ".", ".", ".", ".", ".", ".", ".", ".">>,
       <<".", ".", "#", ".", ".", ".", ".", ".", ".", ".">>,
       <<".", ".", ".", ".", ".", ".", ".", "#", ".", ".">>,
       <<".", ".", ".", ".", ".", ".", ".", ".", ".", ".">>,
       <<".", "#", ".", ".", "^", ".", ".", ".", ".", ".">>,
       <<".", ".", ".", ".", ".", ".", ".", ".", "#", ".">>,
       <<"#", ".", ".", ".", ".", ".", ".", ".", ".", ".">>,
       <<".", ".", ".", ".", ".", ".", "#", ".", ".", ".">> >>


\* Input texts of Day 06: the example, and every full-size grid whose obstacles lie
\* among D06_ObstacleCells and whose guard stands on one of D06_GuardCells.
D06_ObstacleCells == {<<1, 0>>, <<3, 1>>, <<2, 3>>, <<0, 2>>, <<3, 2>>, <<1, 4>>}
D06_GuardCells == {<<1, 2>>, <<1, 3>>, <<2, 2>>}
D06_GuardChars == {"^", ">", "v", "<"}

D06_MkText(obst, gpos, gch) ==
    [y \in 1..D06_GRID_SIZE |->
        [x \in 1..D06_GRID_SIZE |->
            IF <<x - 1, y - 1>> = gpos THEN gch
            ELSE IF <<x - 1, y - 1>> \in obst THEN "#" ELSE "."]]

D06_Texts ==
    {D06_INPUT} \cup
    {D06_MkText(obst, gpos, gch) :
        obst \in SUBSET D06_ObstacleCells, gpos \in D06_GuardCells, gch \in D06_GuardChars}

D06_Init ==
    /\ day = "day06"
    /\ raw \in D06_Texts
    /\ input = Nothing
    /\ work = Nothing
    /\ pc = "Idle"
    /\ out1 = Nothing
    /\ out2 = Nothing

\* Day06::parser(&mut raw)
D06_Parse ==
    /\ day = "day06" /\ pc = "Idle"
    /\ input' = D06_parser(raw)
    /\ pc' = "Parsed"
    /\ UNCHANGED <<day, raw, work, out1, out2>>

\* Day06::part_1(&input)
D06_Part1 ==
    /\ day = "day06" /\ pc = "Parsed"
    /\ LET r == D06_part_1(input) IN
        /\ input' = r.input
        /\ out1' = r.out
    /\ pc' = "SolvedPart1"
    /\ UNCHANGED <<day, raw, work, out2>>

\* Day06::part_2(&input), after part_1 or alone as the tests call it
D06_Part2 ==
    /\ day = "day06" /\ pc \in {"Parsed", "SolvedPart1"}
    /\ LET r == D06_part_2(input) IN
        /\ input' = r.input
        /\ out2' = r.out
    /\ pc' = "SolvedPart2"
    /\ UNCHANGED <<day, raw, work, out1>>

D06_Next == D06_Parse \/ D06_Part1 \/ D06_Part2

SpecD06 == D06_Init /\ [][D06_Next]_vars

(***************************************************************************)
(* C9: Day06 part_2 counts the loop-inducing obstacle positions            *)
(***************************************************************************)
\* The patrol rule stated on positions alone: one move of a guard g among the
\* obstacles obs; the result is None when the guard leaves the area.
C9_Delta(dir) ==
    CASE dir = "Up" -> <<0, -1>> [] dir = "Right" -> <<1, 0>>
      [] dir = "Down" -> <<0, 1>> [] dir = "Left" -> <<-1, 0>>

C9_RightOf(dir) ==
    CASE dir = "Up" -> "Right" [] dir = "Right" -> "Down"
      [] dir = "Down" -> "Left" [] dir = "Left" -> "Up"

C9_Area == (0..(D06_GRID_SIZE - 1)) \X (0..(D06_GRID_SIZE - 1))

C9_Move(obs, g) ==
    LET front == <<g.pos[1] + C9_Delta(g.dir)[1], g.pos[2] + C9_Delta(g.dir)[2]>> IN
    IF front \notin C9_Area THEN None
    ELSE IF front \in obs THEN Some([pos |-> g.pos, dir |-> C9_RightOf(g.dir)])
    ELSE Some([pos |-> front, dir |-> g.dir])

\* The guard after n moves, None once it has left the area.
RECURSIVE C9_After(_, _, _)
C9_After(obs, g, n) ==
    IF g = None \/ n = 0 THEN g
    ELSE IF n = 1 THEN C9_Move(obs, g[1])
    ELSE C9_After(obs, C9_After(obs, g, n \div 2), n - (n \div 2))

\* The guard is still inside after n moves.  With n the number of (position,
\* direction) pairs of the area, this is "the walk never leaves the area".
C9_StaysInside(obs, g, n) == C9_After(obs, Some(g), n) # None

C9_LoopPositions(st) ==
    {p \in C9_Area \ (st.obstacles \cup {st.init_pos}) :
        C9_StaysInside(st.obstacles \cup {p},
                       [pos |-> st.init_pos, dir |-> st.guard.dir],
                       4 * D06_GRID_SIZE * D06_GRID_SIZE)}

\* The guard's walk on the grid as parsed, with no obstacle added, leaves the area.
C9_WalkLeaves(st) ==
    ~C9_StaysInside(st.obstacles, [pos |-> st.init_pos, dir |-> st.guard.dir],
                    4 * D06_GRID_SIZE * D06_GRID_SIZE)

\* C9 as stated: part_2 returns exactly the number of positions, other than the
\* start and the existing obstacles, where one added obstacle keeps the guard inside
\* for ever; for the 10x10 example this number is 6.
C9_Original ==
    (day = "day06" /\ pc = "SolvedPart2") =>
        /\ out2 = Value(Cardinality(C9_LoopPositions(D06_parser(raw))))
        /\ (raw = D06_INPUT => out2 = Value(6))

\* C9 as amended: the same, for the inputs on which the guard's walk without an added
\* obstacle leaves the area.
C9_Part2CountsLoopPositions ==
    (day = "day06" /\ pc = "SolvedPart2" /\ C9_WalkLeaves(D06_parser(raw))) =>
        /\ out2 = Value(Cardinality(C9_LoopPositions(D06_parser(raw))))
        /\ (raw = D06_INPUT => out2 = Value(6))

\* The run of part_2 on the example, whose walk leaves the area, has found 6 positions.
C9_Witness ==
    /\ day = "day06" /\ pc = "SolvedPart2"
    /\ raw = D06_INPUT
    /\ C9_WalkLeaves(D06_parser(raw))
    /\ out2 = Value(6)

(***************************************************************************)
(* Day 06 part_2 as it runs: the keys of the walked state are handed to    *)
(* the threads of the pool (par_bridge), each thread evaluates the filter  *)
(* closure on the key it took, one call of advance at a time, and the      *)
(* hits are counted.                                                       *)
(***************************************************************************)
\* Threads of the pool.
D06P_NumThreads == 2
D06P_Threads == 1..D06P_NumThreads

\* A thread that holds no candidate.
D06P_Idle == [kind |-> "idle"]

\* Input texts of the runs with a pool: the guard walks straight out of the area,
\* and a candidate on its way sends it among the obstacles.
D06P_ObstacleCells == {<<3, 1>>, <<2, 3>>, <<0, 2>>, <<3, 2>>}
D06P_GuardCells == {<<1, 2>>, <<1, 3>>}

D06P_Texts ==
    {D06_MkText(obst, gpos, "^") :
        obst \in SUBSET D06P_ObstacleCells, gpos \in D06P_GuardCells}

D06P_Init ==
    /\ day = "day06"
    /\ raw \in D06P_Texts
    /\ input = Nothing
    /\ work = Nothing
    /\ pc = "Idle"
    /\ out1 = Nothing
    /\ out2 = Nothing

\* part_2, lines 232-240: the clone is walked, its keys become the shared iterator.
D06P_Part2Begin ==
    /\ day = "day06" /\ pc = "Parsed"
    /\ LET state == D06_advance_loop(input).self IN
        work' = [state |-> state,
                 keys |-> DOMAIN state.visited,
                 tasks |-> [t \in D06P_Threads |-> D06P_Idle],
                 count |-> 0]
    /\ pc' = "SolvingPart2"
    /\ UNCHANGED <<day, raw, input, out1, out2>>

\* A thread takes the next key of the iterator and enters the filter closure: a key
\* equal to init_pos is dropped, for any other loops_with_obstacle starts on `input`.
D06P_Take(t) ==
    /\ day = "day06" /\ pc = "SolvingPart2"
    /\ work.tasks[t] = D06P_Idle
    /\ \E pos \in work.keys :
        IF pos # work.state.init_pos
        THEN LET b == D06_loops_with_obstacle_begin(input, pos) IN
             /\ input' = b.self
             /\ work' = [work EXCEPT !.keys = @ \ {pos},
                                     !.tasks[t] = [kind |-> "busy", pos |-> pos, state |-> b.state]]
        ELSE /\ input' = input
             /\ work' = [work EXCEPT !.keys = @ \ {pos}]
    /\ UNCHANGED <<day, raw, pc, out1, out2>>

\* One iteration of the loop of loops_with_obstacle in thread t; when advance does
\* not return Some(true) the closure returns and a hit is counted.
D06P_Advance(t) ==
    /\ day = "day06" /\ pc = "SolvingPart2"
    /\ work.tasks[t] # D06P_Idle
    /\ LET r == D06_advance(work.tasks[t].state) IN
        IF r.ret = "SomeTrue"
        THEN work' = [work EXCEPT !.tasks[t].state = r.self]
        ELSE work' = [work EXCEPT !.tasks[t] = D06P_Idle,
                                  !.count = @ + (IF r.ret = "None" THEN 1 ELSE 0)]
    /\ UNCHANGED <<day, raw, input, pc, out1, out2>>

\* count() returns once the iterator is exhausted and every closure has returned.
D06P_Part2End ==
    /\ day = "day06" /\ pc = "SolvingPart2"
    /\ work.keys = {}
    /\ \A t \in D06P_Threads : work.tasks[t] = D06P_Idle
    /\ out2' = Value(work.count)
    /\ work' = Nothing
    /\ pc' = "SolvedPart2"
    /\ UNCHANGED <<day, raw, input, out1>>

D06P_Next ==
    \/ D06_Parse
    \/ D06P_Part2Begin
    \/ \E t \in D06P_Threads : D06P_Take(t)
    \/ \E t \in D06P_Threads : D06P_Advance(t)
    \/ D06P_Part2End

SpecD06P == D06P_Init /\ [][D06P_Next]_vars

(***************************************************************************)
(* C7: the fan-out of Day06 part_2 works on private clones                 *)
(***************************************************************************)
\* C7: while the candidates are evaluated by the pool, the parsed input and the
\* walked state stay as they were when the fan-out started, every evaluation in
\* progress holds a clone whose obstacles are those of the input plus its own
\* candidate, and the count returned equals the count of the evaluation of the
\* candidates one after another.
C7_PrivateClones ==
    /\ (day = "day06" /\ pc = "SolvingPart2") =>
        /\ input = D06_parser(raw)
        /\ work.state = D06_advance_loop(D06_parser(raw)).self
        /\ \A t \in D06P_Threads :
            work.tasks[t] # D06P_Idle =>
                /\ work.tasks[t].state.obstacles = D06_parser(raw).obstacles \cup {work.tasks[t].pos}
                /\ work.tasks[t].state.init_pos = D06_parser(raw).init_pos
    /\ (day = "day06" /\ pc = "SolvedPart2") =>
        /\ input = D06_parser(raw)
        /\ out2 = D06_part_2(D06_parser(raw)).out

\* Every thread holds a candidate while a hit of an earlier evaluation is counted.
C7_Witness ==
    /\ day = "day06" /\ pc = "SolvingPart2"
    /\ \A t \in D06P_Threads : work.tasks[t] # D06P_Idle
    /\ work.count >= 1

(***************************************************************************)
(* Day 24: the device of logic gates                                       *)
(***************************************************************************)
\* A wire name is the sequence of its characters.
\* The characters of the names of the model, in the order of their codes.
String_Chars == <<"0", "1", "2", "3", "4", "5", "6", "7", "8", "9", "a", "b", "c", "d", "t", "x", "y", "z">>
String_Digits == <<"0", "1", "2", "3", "4", "5", "6", "7", "8", "9">>

IndexOf(seq, c) == CHOOSE i \in 1..Len(seq) : seq[i] = c

\* str::starts_with(c)
D24_starts_with(name, c) == Len(name) >= 1 /\ name[1] = c

\* str::parse::<usize>() on a sequence of characters: Some(n) or None.
RECURSIVE parse_digits_acc(_, _, _)
parse_digits_acc(chars, i, acc) ==
    IF i > Len(chars) THEN Some(acc)
    ELSE IF \E d \in 1..Len(String_Digits) : String_Digits[d] = chars[i]
         THEN parse_digits_acc(chars, i + 1, acc * 10 + IndexOf(String_Digits, chars[i]) - 1)
         ELSE None

parse_digits(chars) ==
    IF Len(chars) = 0 THEN None ELSE parse_digits_acc(chars, 1, 0)

\* gate.output.strip_prefix('z').and_then(|n| n.parse::<usize>().ok())
D24_z_position(output) ==
    IF D24_starts_with(output, "z") THEN parse_digits(Tail(output)) ELSE None

\* A u64 is kept as the set of the positions of its one bits (2^45 is beyond the
\* integers of TLC): out | ((bit as u64) << pos), for pos < 64.
D24_or_bit(out, bit, pos) == IF bit THEN out \cup {pos} ELSE out

D24_apply(op, input0, input1) ==
    CASE op = "And" -> input0 /\ input1
      [] op = "Or" -> input0 \/ input1
      [] op = "Xor" -> input0 # input1

\* The outcome of an execute that never returns: no gate of the queue has both inputs.
Hang == [kind |-> "hang"]

D24_ready(self, gate) ==
    gate.input0 \in DOMAIN self.values /\ gate.input1 \in DOMAIN self.values

\* The `while let Some(gate) = self.gates.pop_front()` loop of execute.
RECURSIVE D24_execute_loop(_, _)
D24_execute_loop(self, out) ==
    IF self.gates = <<>> THEN [self |-> self, ret |-> Value(out)]
    ELSE IF \A i \in 1..Len(self.gates) : ~D24_ready(self, self.gates[i])
    THEN [self |-> self, ret |-> Hang]
    ELSE
      LET gate == Head(self.gates)
          popped == [self EXCEPT !.gates = Tail(@)]
      IN  IF gate.input0 \notin DOMAIN self.values \/ gate.input1 \notin DOMAIN self.values
          THEN D24_execute_loop([popped EXCEPT !.gates = Append(@, gate)], out)
          ELSE LET bit == D24_apply(gate.op, self.values[gate.input0], self.values[gate.input1])
                   pos == D24_z_position(gate.output)
               IN  IF pos # None
                   THEN D24_execute_loop(popped, D24_or_bit(out, bit, pos[1]))
                   ELSE D24_execute_loop(
                            [popped EXCEPT !.values = MapPut(@, gate.output, bit)], out)

D24_execute(self) == D24_execute_loop(self, {})

\* parse_value on the tokens <<name, digit>> of one line
D24_parse_value(line) == <<line[1], line[2] # "0">>

\* parse_values: the lines accumulated into a HashMap, a later line replacing an earlier one
RECURSIVE D24_parse_values(_, _, _)
D24_parse_values(lines, i, acc) ==
    IF i > Len(lines) THEN acc
    ELSE LET kv == D24_parse_value(lines[i]) IN
         D24_parse_values(lines, i + 1, MapPut(acc, kv[1], kv[2]))

\* parse_gate on the tokens <<input0, op, input1, output>> of one line
D24_parse_gate(line) ==
    [input0 |-> line[1],
     op |-> CASE line[2] = " AND " -> "And" [] line[2] = " OR " -> "Or" [] line[2] = " XOR " -> "Xor",
     input1 |-> line[3],
     output |-> line[4]]

D24_parse_gates(lines) == [i \in 1..Len(lines) |-> D24_parse_gate(lines[i])]

\* Day24::parser on a text given as the tokens of its two blocks.
D24_parser(text) ==
    [values |-> D24_parse_values(text.values, 1, EmptyMap),
     gates |-> D24_parse_gates(text.gates)]

\* A copy of part_1 that executes the borrowed device itself instead of a clone.
D24_part_1_InPlace(inp) ==
    LET r == D24_execute(inp) IN [input |-> r.self, out |-> r.ret]

D24_part_1(inp) ==
    LET device == inp
        r == D24_execute(device)
    IN  [input |-> inp, out |-> r.ret]

\* input.gates.iter().any(|g| (g.input0 == gate.output || g.input1 == gate.output) && g.op == Operator::Or)
D24_feeds_or(inp, gate) ==
    \E i \in 1..Len(inp.gates) :
        /\ inp.gates[i].input0 = gate.output \/ inp.gates[i].input1 = gate.output
        /\ inp.gates[i].op = "Or"

\* The check at the end of the loop body of part_2: gates which output a z.
D24_z_check(gate) ==
    IF D24_starts_with(gate.output, "z")
    THEN IF gate.output = <<"z", "4", "5">> THEN gate.op # "Or" ELSE gate.op # "Xor"
    ELSE FALSE

\* One iteration of the loop of part_2: whether the output of the gate is pushed to to_swap.
D24_pushes(inp, gate) ==
    LET is_first == gate.input0 = <<"x", "0", "0">> \/ gate.input1 = <<"x", "0", "0">> IN
    CASE gate.op = "Xor" ->
           IF D24_starts_with(gate.input0, "x") \/ D24_starts_with(gate.input1, "x")
           THEN IF is_first THEN gate.output # <<"z", "0", "0">>
                ELSE IF gate.output = <<"z", "0", "0">> THEN TRUE
                ELSE IF D24_starts_with(gate.output, "z") THEN TRUE
                ELSE IF D24_feeds_or(inp, gate) THEN TRUE
                ELSE D24_z_check(gate)
           ELSE IF ~D24_starts_with(gate.output, "z") THEN TRUE
                ELSE D24_z_check(gate)
      [] gate.op = "And" ->
           IF /\ \/ D24_starts_with(gate.input0, "x") /\ D24_starts_with(gate.input1, "y")
                 \/ D24_starts_with(gate.input0, "y") /\ D24_starts_with(gate.input1, "x")
              /\ ~is_first
              /\ ~D24_feeds_or(inp, gate)
           THEN TRUE
           ELSE D24_z_check(gate)
      [] gate.op = "Or" -> D24_z_check(gate)

\* The order of String: by the characters, a proper prefix first.
RECURSIVE String_le(_, _)
String_le(a, b) ==
    IF a = <<>> THEN TRUE
    ELSE IF b = <<>> THEN FALSE
    ELSE IF a[1] = b[1] THEN String_le(Tail(a), Tail(b))
    ELSE IndexOf(String_Chars, a[1]) < IndexOf(String_Chars, b[1])

\* to_swap.sort_unstable()
RECURSIVE sort_insert(_, _)
sort_insert(sorted, name) ==
    IF sorted = <<>> THEN <<name>>
    ELSE IF String_le(name, Head(sorted)) THEN <<name>> \o sorted
    ELSE <<Head(sorted)>> \o sort_insert(Tail(sorted), name)

RECURSIVE sort_unstable(_)
sort_unstable(names) ==
    IF names = <<>> THEN <<>>
    ELSE sort_insert(sort_unstable(Tail(names)), Head(names))

\* to_swap.join(",")
RECURSIVE join(_)
join(names) ==
    IF names = <<>> THEN <<>>
    ELSE IF Len(names) = 1 THEN names[1]
    ELSE names[1] \o <<",">> \o join(Tail(names))

RECURSIVE D24_to_swap(_, _, _)
D24_to_swap(inp, i, acc) ==
    IF i > Len(inp.gates) THEN acc
    ELSE IF D24_pushes(inp, inp.gates[i])
         THEN D24_to_swap(inp, i + 1, Append(acc, inp.gates[i].output))
         ELSE D24_to_swap(inp, i + 1, acc)

D24_part_2(inp) ==
    [input |-> inp, out |-> Value(join(sort_unstable(D24_to_swap(inp, 1, <<>>))))]

(***************************************************************************)
(* Day 15: the warehouse                                                   *)
(***************************************************************************)
\* The side of the square warehouse (10 in the test build, 50 otherwise), scaled down.
D15_GRID_SIZE == 10

\* Loc::with_move; the location must be inside the border.
D15_with_move(loc, mov) ==
    CASE mov = "Up" -> [x |-> loc.x, y |-> loc.y - 1]
      [] mov = "Right" -> [x |-> loc.x + 1, y |-> loc.y]
      [] mov = "Down" -> [x |-> loc.x, y |-> loc.y + 1]
      [] mov = "Left" -> [x |-> loc.x - 1, y |-> loc.y]

\* Grid::get: the rows and the tiles of a row are indexed from 0.
D15_get(grid, x, y) ==
    IF y + 1 \in 1..Len(grid)
    THEN IF x + 1 \in 1..Len(grid[y + 1]) THEN Some(grid[y + 1][x + 1]) ELSE None
    ELSE None

D15_get_loc(grid, loc) == D15_get(grid, loc.x, loc.y)

\* grid[y][x] = tile
D15_set(grid, x, y, tile) == [grid EXCEPT ![y + 1][x + 1] = tile]

\* self.iter().flatten()
RECURSIVE D15_flatten(_)
D15_flatten(grid) ==
    IF grid = <<>> THEN <<>> ELSE Head(grid) \o D15_flatten(Tail(grid))

\* Grid::start_pos: the first robot tile of the flattened grid; None stands for the failed unwrap.
D15_start_pos(grid) ==
    LET flat == D15_flatten(grid)
        hits == {i \in 1..Len(flat) : flat[i] = "Robot"}
    IN  IF hits = {} THEN None
        ELSE LET i == (CHOOSE h \in hits : \A g \in hits : h <= g) - 1 IN
             Some([x |-> i % D15_GRID_SIZE, y |-> i \div D15_GRID_SIZE])

\* Grid::gps_score(false)
RECURSIVE D15_gps_sum(_, _)
D15_gps_sum(flat, i) ==
    IF i >= Len(flat) THEN 0
    ELSE (IF flat[i + 1] = "BoxLeft"
          THEN (i \div D15_GRID_SIZE) * 100 + (i % D15_GRID_SIZE)
          ELSE 0) + D15_gps_sum(flat, i + 1)

D15_gps_score(grid) == D15_gps_sum(D15_flatten(grid), 0)

\* The iterator of move_robot after skip_while: the first coordinate of the range, walking away
\* from the robot, whose tile is not a box; None when the range is exhausted.
RECURSIVE D15_skip_boxes(_, _, _, _)
D15_skip_boxes(self, mov, c, remaining) ==
    IF remaining = 0 THEN None
    ELSE LET tile == IF mov \in {"Up", "Down"} THEN D15_get(self.grid, self.robot.x, c)
                     ELSE D15_get(self.grid, c, self.robot.y)
             step == IF mov \in {"Up", "Left"} THEN -1 ELSE 1
         IN  IF tile = Some("BoxLeft") THEN D15_skip_boxes(self, mov, c + step, remaining - 1)
             ELSE Some(c)

\* The `next` of move_robot: the floor tile behind the boxes in line, if there is one.
D15_next_free(self, mov) ==
    LET first == CASE mov = "Up" -> self.robot.y - 1
                   [] mov = "Right" -> self.robot.x + 1
                   [] mov = "Down" -> self.robot.y + 1
                   [] mov = "Left" -> self.robot.x - 1
        count == CASE mov = "Up" -> self.robot.y
                   [] mov = "Right" -> IF self.robot.x + 1 < D15_GRID_SIZE
                                       THEN D15_GRID_SIZE - (self.robot.x + 1) ELSE 0
                   [] mov = "Down" -> IF self.robot.y + 1 < D15_GRID_SIZE
                                      THEN D15_GRID_SIZE - (self.robot.y + 1) ELSE 0
                   [] mov = "Left" -> self.robot.x
        c == D15_skip_boxes(self, mov, first, count)
    IN  IF c = None THEN None
        ELSE IF mov \in {"Up", "Down"}
             THEN IF D15_get(self.grid, self.robot.x, c[1]) = Some("Floor")
                  THEN Some([x |-> self.robot.x, y |-> c[1]]) ELSE None
             ELSE IF D15_get(self.grid, c[1], self.robot.y) = Some("Floor")
                  THEN Some([x |-> c[1], y |-> self.robot.y]) ELSE None

\* Puzzle::move_robot; ret is "panic" for the unreachable!() arm.
D15_move_robot(self, mov) ==
    LET neighbor == D15_with_move(self.robot, mov)
        tile == D15_get_loc(self.grid, neighbor)
    IN  IF tile = Some("Wall") \/ tile = None THEN [self |-> self, ret |-> "ok"]
        ELSE IF tile = Some("Floor") THEN [self |-> [self EXCEPT !.robot = neighbor], ret |-> "ok"]
        ELSE IF tile = Some("BoxLeft")
        THEN LET next == D15_next_free(self, mov) IN
             IF next = None THEN [self |-> self, ret |-> "ok"]
             ELSE [self |-> [self EXCEPT
                       !.grid = D15_set(D15_set(@, neighbor.x, neighbor.y, "Floor"),
                                        next[1].x, next[1].y, "BoxLeft"),
                       !.robot = neighbor],
                   ret |-> "ok"]
        ELSE [self |-> self, ret |-> "panic"]

\* parse_row
D15_parse_tile(c) ==
    CASE c = "." -> "Floor" [] c = "#" -> "Wall" [] c = "O" -> "BoxLeft" [] c = "@" -> "Robot"

D15_parse_row(row) == [i \in 1..Len(row) |-> D15_parse_tile(row[i])]

D15_parse_grid(rows) == [i \in 1..Len(rows) |-> D15_parse_row(rows[i])]

\* parse_move
D15_parse_move(c) ==
    CASE c = "^" -> "Up" [] c = ">" -> "Right" [] c = "v" -> "Down" [] c = "<" -> "Left"

D15_parse_moves(chars) == [i \in 1..Len(chars) |-> D15_parse_move(chars[i])]

\* Day15::parser on a text given as the rows of the grid and the characters of the moves.
D15_parser(text) ==
    LET grid == D15_parse_grid(text.grid)
        moves == D15_parse_moves(text.moves)
        start_pos == D15_start_pos(grid)
    IN  IF start_pos = None THEN Panic
        ELSE Value([grid |-> D15_set(grid, start_pos[1].x, start_pos[1].y, "Floor"),
                    robot |-> start_pos[1],
                    moves |-> moves])

\* for mov in data.moves.clone() { data.move_robot(mov); }
RECURSIVE D15_move_all(_, _, _)
D15_move_all(data, moves, i) ==
    IF i > Len(moves) THEN [self |-> data, ret |-> "ok"]
    ELSE LET r == D15_move_robot(data, moves[i]) IN
         IF r.ret = "panic" THEN r ELSE D15_move_all(r.self, moves, i + 1)

\* A copy of part_1 that moves the robot of the borrowed puzzle itself instead of a clone.
D15_part_1_InPlace(inp) ==
    LET r == D15_move_all(inp, inp.moves, 1) IN
    [input |-> r.self,
     out |-> IF r.ret = "panic" THEN Panic ELSE Value(D15_gps_score(r.self.grid))]

D15_part_1(inp) ==
    LET data == inp
        r == D15_move_all(data, data.moves, 1)
    IN  [input |-> inp,
         out |-> IF r.ret = "panic" THEN Panic ELSE Value(D15_gps_score(r.self.grid))]

\* Input texts of Day 15: a warehouse of full size inside a border of walls, the robot on
\* one of D15_RobotCells, boxes among D15_BoxCells, and up to D15_MaxMoves moves; and one
\* text without a robot.
D15_RobotCells == {<<1, 1>>, <<2, 2>>}
D15_BoxCells == {<<2, 1>>, <<3, 1>>, <<1, 2>>, <<2, 3>>}
D15_MoveChars == {"^", ">", "v", "<"}
D15_MaxMoves == 2

D15_MkGrid(boxes, robot) ==
    [y \in 1..D15_GRID_SIZE |->
        [x \in 1..D15_GRID_SIZE |->
            IF x = 1 \/ y = 1 \/ x = D15_GRID_SIZE \/ y = D15_GRID_SIZE THEN "#"
            ELSE IF <<x - 1, y - 1>> = robot THEN "@"
            ELSE IF <<x - 1, y - 1>> \in boxes THEN "O" ELSE "."]]

D15_MoveTexts == UNION {[1..n -> D15_MoveChars] : n \in 1..D15_MaxMoves}

D15_Texts ==
    {[grid |-> D15_MkGrid(boxes, robot), moves |-> moves] :
        boxes \in SUBSET D15_BoxCells, robot \in D15_RobotCells, moves \in D15_MoveTexts}
    \cup {[grid |-> D15_MkGrid({<<2, 1>>}, <<0, 0>>), moves |-> <<"^">>]}

D15_Init ==
    /\ day = "day15"
    /\ raw \in D15_Texts
    /\ input = Nothing
    /\ work = Nothing
    /\ pc = "Idle"
    /\ out1 = Nothing
    /\ out2 = Nothing

\* Day15::parser(&mut raw); the unwrap of start_pos aborts the run on a grid without a robot
D15_Parse ==
    /\ day = "day15" /\ pc = "Idle"
    /\ LET r == D15_parser(raw) IN
        IF r = Panic
        THEN /\ pc' = "Aborted"
             /\ input' = input
        ELSE /\ pc' = "Parsed"
             /\ input' = r.v
    /\ UNCHANGED <<day, raw, work, out1, out2>>

\* Day15::part_1(&input)
D15_Part1 ==
    /\ day = "day15" /\ pc = "Parsed"
    /\ LET r == D15_part_1(input) IN
        /\ input' = r.input
        /\ out1' = r.out
    /\ pc' = "SolvedPart1"
    /\ UNCHANGED <<day, raw, work, out2>>

D15_Next == D15_Parse \/ D15_Part1

\* Input texts of Day 24: the two input wires with every value, and up to D24_MaxGates
\* distinct gates of D24_GateLines in every order.
D24_GateLines ==
    { << <<"x", "0", "0">>, " XOR ", <<"y", "0", "0">>, <<"z", "0", "0">> >>,
      << <<"x", "0", "0">>, " AND ", <<"y", "0", "0">>, <<"a">> >>,
      << <<"y", "0", "1">>, " AND ", <<"x", "0", "1">>, <<"b">> >>,
      << <<"a">>, " XOR ", <<"x", "0", "1">>, <<"z", "0", "1">> >>,
      << <<"a">>, " OR ", <<"b">>, <<"z", "4", "5">> >>,
      << <<"x", "0", "1">>, " XOR ", <<"y", "0", "1">>, <<"a">> >> }
D24_MaxGates == 3

D24_ValueTexts ==
    { << <<<<"x", "0", "0">>, v[1]>>, <<<<"y", "0", "0">>, v[2]>>,
         <<<<"x", "0", "1">>, v[3]>>, <<<<"y", "0", "1">>, "0">> >> :
        v \in {<<"0", "1", "1">>, <<"1", "1", "0">>, <<"1", "0", "1">>} }

D24_GateTexts ==
    UNION {{g \in [1..n -> D24_GateLines] : \A i, j \in 1..n : g[i] = g[j] => i = j} :
              n \in 1..D24_MaxGates}

D24_Texts == {[values |-> v, gates |-> g] : v \in D24_ValueTexts, g \in D24_GateTexts}

D24_Init ==
    /\ day = "day24"
    /\ raw \in D24_Texts
    /\ input = Nothing
    /\ work = Nothing
    /\ pc = "Idle"
    /\ out1 = Nothing
    /\ out2 = Nothing

\* Day24::parser(&mut raw)
D24_Parse ==
    /\ day = "day24" /\ pc = "Idle"
    /\ input' = D24_parser(raw)
    /\ pc' = "Parsed"
    /\ UNCHANGED <<day, raw, work, out1, out2>>

\* Day24::part_1(&input); the call does not return when no gate of the queue can fire
D24_Part1 ==
    /\ day = "day24" /\ pc = "Parsed"
    /\ LET r == D24_part_1(input) IN
        /\ input' = r.input
        /\ out1' = r.out
        /\ pc' = IF r.out = Hang THEN "Hung" ELSE "SolvedPart1"
    /\ UNCHANGED <<day, raw, work, out2>>

\* Day24::part_2(&input), after part_1 or alone as the tests call it
D24_Part2 ==
    /\ day = "day24" /\ pc \in {"Parsed", "SolvedPart1"}
    /\ LET r == D24_part_2(input) IN
        /\ input' = r.input
        /\ out2' = r.out
    /\ pc' = "SolvedPart2"
    /\ UNCHANGED <<day, raw, work, out1>>

D24_Next == D24_Parse \/ D24_Part1 \/ D24_Part2

\* The three days that simulate on mutable state, each run as the harness runs a day.
SimInit == D06_Init \/ D15_Init \/ D24_Init

SimNext ==
    \/ D06_Parse \/ D06_Part1 \/ D06_Part2
    \/ D15_Parse \/ D15_Part1
    \/ D24_Parse \/ D24_Part1 \/ D24_Part2

SpecSim == SimInit /\ [][SimNext]_vars

(***************************************************************************)
(* C1: part_1 leaves the parsed input unchanged                            *)
(***************************************************************************)
\* C1: once parsed, the input stays the value the parser built from the text, through
\* part_1 and part_2; and part_2 run after part_1 returns what part_2 returns on a
\* freshly parsed value of the same text.
C1_NonMutation ==
    /\ day = "day06" /\ pc \in {"Parsed", "SolvedPart1", "SolvedPart2"} =>
           /\ input = D06_parser(raw)
           /\ pc = "SolvedPart2" => out2 = D06_part_2(D06_parser(raw)).out
    /\ day = "day15" /\ pc \in {"Parsed", "SolvedPart1"} =>
           input = D15_parser(raw).v
    /\ day = "day24" /\ pc \in {"Parsed", "SolvedPart1", "SolvedPart2", "Hung"} =>
           /\ input = D24_parser(raw)
           /\ pc = "SolvedPart2" => out2 = D24_part_2(D24_parser(raw)).out

\* part_2 has run after a part_1 whose walk went on from the starting tile.
C1_Witness ==
    /\ day = "day06" /\ pc = "SolvedPart2"
    /\ out1 # Nothing /\ out1.v > 1
    /\ out2.v >= 1

\* A part_1 of Day 15 that pushed a box: the score differs from that of the parsed grid.
C1_WitnessWarehouse ==
    /\ day = "day15" /\ pc = "SolvedPart1"
    /\ out1 # Panic /\ out1.v # D15_gps_score(input.grid)

\* A part_2 of Day 24 after a part_1 that fired every gate, some of them requeued first.
C1_WitnessDevice ==
    /\ day = "day24" /\ pc = "SolvedPart2"
    /\ out1 # Nothing /\ out1.v # {}
    /\ Len(out2.v) > 0

(***************************************************************************)
(* Day 23: the LAN party                                                   *)
(***************************************************************************)
\* petgraph's UnGraph: the node weights in index order (index 0 first) and the edges
\* <<source, target>> in insertion order.
D23_new_undirected == [weights |-> <<>>, edges |-> <<>>]

\* Graph::add_node: the new graph and the index of the node.
D23_add_node(graph, weight) ==
    [graph |-> [graph EXCEPT !.weights = Append(@, weight)], ret |-> Len(graph.weights)]

D23_add_edge(graph, a, b) == [graph EXCEPT !.edges = Append(@, <<a, b>>)]

\* Graph::contains_edge of an undirected graph
D23_contains_edge(graph, a, b) ==
    \E i \in 1..Len(graph.edges) : graph.edges[i] = <<a, b>> \/ graph.edges[i] = <<b, a>>

\* Graph::node_weight(idx).unwrap()
D23_node_weight(graph, idx) == graph.weights[idx + 1]

\* Graph::neighbors of an undirected graph: the targets of the edges leaving idx, newest
\* edge first, then the sources of the edges entering idx, newest first, a loop edge once.
RECURSIVE D23_neighbors_out(_, _, _)
D23_neighbors_out(graph, idx, i) ==
    IF i = 0 THEN <<>>
    ELSE (IF graph.edges[i][1] = idx THEN <<graph.edges[i][2]>> ELSE <<>>)
         \o D23_neighbors_out(graph, idx, i - 1)

RECURSIVE D23_neighbors_in(_, _, _)
D23_neighbors_in(graph, idx, i) ==
    IF i = 0 THEN <<>>
    ELSE (IF graph.edges[i][2] = idx /\ graph.edges[i][1] # idx
          THEN <<graph.edges[i][1]>> ELSE <<>>)
         \o D23_neighbors_in(graph, idx, i - 1)

D23_neighbors(graph, idx) ==
    D23_neighbors_out(graph, idx, Len(graph.edges))
        \o D23_neighbors_in(graph, idx, Len(graph.edges))

\* Itertools::combinations(k): the k-element subsequences in lexicographic order of positions.
RECURSIVE D23_combinations(_, _)
D23_combinations(s, k) ==
    IF k = 0 THEN << <<>> >>
    ELSE IF Len(s) < k THEN <<>>
    ELSE LET with == D23_combinations(Tail(s), k - 1) IN
         [i \in 1..Len(with) |-> <<Head(s)>> \o with[i]] \o D23_combinations(Tail(s), k)

\* Itertools::powerset: the combinations of size 0, then of size 1, and so on.
RECURSIVE D23_powerset_from(_, _)
D23_powerset_from(s, k) ==
    IF k > Len(s) THEN <<>>
    ELSE D23_combinations(s, k) \o D23_powerset_from(s, k + 1)

D23_powerset(s) == D23_powerset_from(s, 0)

\* the filter of part_2: more than one node, and every two of them joined by an edge
D23_is_group(graph, set) ==
    /\ Len(set) > 1
    /\ \A i, j \in 1..Len(set) : i < j => D23_contains_edge(graph, set[i], set[j])

\* the inner loop of part_2 over the filtered powerset
RECURSIVE D23_scan_groups(_, _, _, _)
D23_scan_groups(graph, sets, i, largest_group) ==
    IF i > Len(sets) THEN largest_group
    ELSE IF D23_is_group(graph, sets[i]) /\ Len(sets[i]) > Len(largest_group)
         THEN D23_scan_groups(graph, sets, i + 1, sets[i])
         ELSE D23_scan_groups(graph, sets, i + 1, largest_group)

\* the outer loop of part_2 over input.nodes.values(), in the order the map yields them
RECURSIVE D23_scan_nodes(_, _, _, _)
D23_scan_nodes(inp, values, i, largest_group) ==
    IF i > Len(values) THEN largest_group
    ELSE D23_scan_nodes(inp, values, i + 1,
             D23_scan_groups(inp.graph,
                 D23_powerset(D23_neighbors(inp.graph, values[i]) \o <<values[i]>>),
                 1, largest_group))

\* input.nodes.values(): the values in the iteration order of the map, which the map's
\* random hasher state fixed when the map was built.
D23_values(inp) == [i \in 1..Len(inp.order) |-> inp.nodes[inp.order[i]]]

D23_part_2(inp) ==
    LET largest_group == D23_scan_nodes(inp, D23_values(inp), 1, <<>>)
        nodes == [i \in 1..Len(largest_group) |-> D23_node_weight(inp.graph, largest_group[i])]
    IN  [input |-> inp, out |-> Value(join(sort_unstable(nodes)))]

\* nodes.entry(name).or_insert(idx)
D23_or_insert(nodes, name, idx) ==
    IF name \in DOMAIN nodes THEN nodes ELSE MapPut(nodes, name, idx)

\* the loop of the parser over the edges; a node is added to the graph for both ends of
\* every edge, whether or not the name is already in the map
RECURSIVE D23_parser_loop(_, _, _, _)
D23_parser_loop(edges, i, graph, nodes) ==
    IF i > Len(edges) THEN [graph |-> graph, nodes |-> nodes]
    ELSE LET n0 == D23_add_node(graph, edges[i][1])
             nodes0 == D23_or_insert(nodes, edges[i][1], n0.ret)
             n1 == D23_add_node(n0.graph, edges[i][2])
             nodes1 == D23_or_insert(nodes0, edges[i][2], n1.ret)
         IN  D23_parser_loop(edges, i + 1,
                 D23_add_edge(n1.graph, nodes1[edges[i][1]], nodes1[edges[i][2]]), nodes1)

\* The orders in which a map with the given keys can yield its entries.
D23_Orders(keys) ==
    {o \in [1..Cardinality(keys) -> keys] : \A i, j \in 1..Cardinality(keys) : o[i] = o[j] => i = j}

\* Day23::parser on a text given as its pairs of names; order is the iteration order the
\* hasher state of this map gives.
D23_parser(text, order) ==
    LET r == D23_parser_loop(text, 1, D23_new_undirected, EmptyMap) IN
    [graph |-> r.graph, nodes |-> r.nodes, order |-> order]

\* Input texts of Day 23: up to D23_MaxEdges distinct pairs of D23_PairLines.
D23_PairLines ==
    { << <<"a">>, <<"b">> >>, << <<"c">>, <<"d">> >>, << <<"b">>, <<"c">> >>,
      << <<"c">>, <<"a">> >>, << <<"t", "a">>, <<"a">> >> }
D23_MaxEdges == 3
D23_Runs == 2

D23_Texts ==
    UNION {{e \in [1..n -> D23_PairLines] : \A i, j \in 1..n : e[i] = e[j] => i = j} :
              n \in 1..D23_MaxEdges}

D23_Init ==
    /\ day = "day23"
    /\ raw \in D23_Texts
    /\ input = Nothing
    /\ work = Nothing
    /\ pc = "Idle"
    /\ out1 = Nothing
    /\ out2 = <<>>

\* Day23::parser(&mut raw): a run of the program builds the map with a fresh hasher state
D23_Parse ==
    /\ day = "day23" /\ pc = "Idle"
    /\ \E order \in D23_Orders(DOMAIN D23_parser(raw, <<>>).nodes) :
           input' = D23_parser(raw, order)
    /\ pc' = "Parsed"
    /\ UNCHANGED <<day, raw, work, out1, out2>>

\* Day23::part_2(&input); out2 collects the outputs of the runs
D23_Part2 ==
    /\ day = "day23" /\ pc = "Parsed"
    /\ LET r == D23_part_2(input) IN
        /\ input' = r.input
        /\ out2' = Append(out2, r.out)
    /\ pc' = "SolvedPart2"
    /\ UNCHANGED <<day, raw, work, out1>>

\* The program is run again on the same text.
D23_RunAgain ==
    /\ day = "day23" /\ pc = "SolvedPart2" /\ Len(out2) < D23_Runs
    /\ input' = Nothing
    /\ pc' = "Idle"
    /\ UNCHANGED <<day, raw, work, out1, out2>>

D23_Next == D23_Parse \/ D23_Part2 \/ D23_RunAgain

SpecD23 == D23_Init /\ [][D23_Next]_vars

(***************************************************************************)
(* C2: two runs on the same text give the same outputs                     *)
(***************************************************************************)
\* C2: whatever iteration orders the hash maps of the two runs have, the outputs of
\* part_2 of two runs on the same text are identical.
C2_Deterministic ==
    day = "day23" => \A i, j \in 1..Len(out2) : out2[i] = out2[j]

\* Two runs on the text "a-b", "c-d" whose outputs differ.
C2_Divergence ==
    /\ day = "day23" /\ raw = << << <<"a">>, <<"b">> >>, << <<"c">>, <<"d">> >> >>
    /\ Len(out2) = 2
    /\ out2[1] = Value(<<"a", ",", "b">>) /\ out2[2] = Value(<<"c", ",", "d">>)

(***************************************************************************)
(* Day 13: the claw machines                                               *)
(***************************************************************************)
\* The `/` of isize: the quotient truncated toward zero, for a divisor other than 0.
D13_div(n, d) ==
    LET abs(v) == IF v < 0 THEN -v ELSE v
        q == abs(n) \div abs(d)
    IN  IF (n < 0) # (d < 0) THEN -q ELSE q

\* Claw::tokens: Panic for a division by zero, else the Option it returns.
D13_tokens(self) ==
    LET den == self.a.y * self.b.x - self.b.y * self.a.x IN
    IF den = 0 THEN Panic
    ELSE LET b == D13_div(self.a.y * self.prize.x - self.a.x * self.prize.y, den) IN
         IF self.a.x = 0 THEN Panic
         ELSE LET a == D13_div(self.prize.x - b * self.b.x, self.a.x) IN
              IF /\ a > 0
                 /\ b > 0
                 /\ a * self.a.x + b * self.b.x = self.prize.x
                 /\ a * self.a.y + b * self.b.y = self.prize.y
              THEN Value(Some(a * 3 + b))
              ELSE Value(None)

\* Option::unwrap_or_default
D13_unwrap_or_default(opt) == IF opt = None THEN 0 ELSE opt[1]

\* digit1.parse_to::<isize>()
D13_parse_isize(chars) == parse_digits(chars)[1]

\* parse_button, parse_prize on the two numbers of the line
D13_parse_offset(line) == [x |-> D13_parse_isize(line[1]), y |-> D13_parse_isize(line[2])]

\* Day13::parser on a text given as the numbers of the three lines of every machine.
D13_parser(text) ==
    [i \in 1..Len(text) |->
        [a |-> D13_parse_offset(text[i].a),
         b |-> D13_parse_offset(text[i].b),
         prize |-> D13_parse_offset(text[i].prize)]]

\* input.iter().map(|c| c.tokens().unwrap_or_default()).sum()
RECURSIVE D13_sum_tokens(_, _, _)
D13_sum_tokens(inp, i, acc) ==
    IF i > Len(inp) THEN Value(acc)
    ELSE LET t == D13_tokens(inp[i]) IN
         IF t = Panic THEN Panic
         ELSE D13_sum_tokens(inp, i + 1, acc + D13_unwrap_or_default(t.v))

D13_part_1(inp) == [input |-> inp, out |-> D13_sum_tokens(inp, 1, 0)]

\* Input texts of Day 13: one machine, or the machine of the first example followed by
\* one machine, with button offsets among D13_ButtonNumbers and prizes among D13_PrizeNumbers.
D13_ButtonNumbers == {<<"0">>, <<"1">>, <<"2">>}
D13_PrizeNumbers == {<<"0">>, <<"4">>, <<"1", "0">>}
D13_Example ==
    [a |-> << <<"9", "4">>, <<"3", "4">> >>, b |-> << <<"2", "2">>, <<"6", "7">> >>,
     prize |-> << <<"8", "4", "0", "0">>, <<"5", "4", "0", "0">> >>]

D13_Machines ==
    {[a |-> <<ax, ay>>, b |-> <<bx, by>>, prize |-> <<px, py>>] :
        ax \in D13_ButtonNumbers, ay \in D13_ButtonNumbers,
        bx \in D13_ButtonNumbers, by \in D13_ButtonNumbers,
        px \in D13_PrizeNumbers, py \in D13_PrizeNumbers}

D13_Texts == {<<m>> : m \in D13_Machines} \cup {<<D13_Example, m>> : m \in D13_Machines}

D13_Init ==
    /\ day = "day13"
    /\ raw \in D13_Texts
    /\ input = Nothing
    /\ work = Nothing
    /\ pc = "Idle"
    /\ out1 = Nothing
    /\ out2 = Nothing

\* Day13::parser(&mut raw)
D13_Parse ==
    /\ day = "day13" /\ pc = "Idle"
    /\ input' = D13_parser(raw)
    /\ pc' = "Parsed"
    /\ UNCHANGED <<day, raw, work, out1, out2>>

\* Day13::part_1(&input)
D13_Part1 ==
    /\ day = "day13" /\ pc = "Parsed"
    /\ LET r == D13_part_1(input) IN
        /\ input' = r.input
        /\ out1' = r.out
        /\ pc' = IF r.out = Panic THEN "Aborted" ELSE "SolvedPart1"
    /\ UNCHANGED <<day, raw, work, out2>>

(***************************************************************************)
(* Day 18: the falling bytes                                               *)
(***************************************************************************)
\* The side of the memory space (7 in the test build, 71 otherwise) and the number of
\* bytes part_1 lets fall (12 in the test build, 1024 otherwise), scaled down.
D18_GRID_SIZE == 3
D18_PART1_LEN == 2

\* make_grid: a filled grid of GRID_SIZE x GRID_SIZE vertices without the obstacles;
\* remove_vertex of a position outside the grid changes nothing.
D18_make_grid(obstacles) ==
    {<<x, y>> : x \in 0..(D18_GRID_SIZE - 1), y \in 0..(D18_GRID_SIZE - 1)}
        \ {<<obstacles[i].x, obstacles[i].y>> : i \in 1..Len(obstacles)}

\* Grid::neighbours without diagonals: the vertices next to a vertex of the grid.
D18_neighbours(grid, p) ==
    IF p \notin grid THEN {}
    ELSE {q \in grid : \/ q[1] = p[1] /\ (q[2] = p[2] + 1 \/ q[2] = p[2] - 1)
                       \/ q[2] = p[2] /\ (q[1] = p[1] + 1 \/ q[1] = p[1] - 1)}

\* astar with unit costs: Some(cost of a shortest path) when the goal can be reached, else None.
RECURSIVE D18_astar_from(_, _, _, _, _)
D18_astar_from(grid, frontier, seen, goal, cost) ==
    IF goal \in frontier THEN Some(cost)
    ELSE IF frontier = {} THEN None
    ELSE LET next == (UNION {D18_neighbours(grid, p) : p \in frontier}) \ seen IN
         D18_astar_from(grid, next, seen \cup next, goal, cost + 1)

D18_astar(grid, start, goal) == D18_astar_from(grid, {start}, {start}, goal, 0)

\* input.get(0..PART1_LEN): None when the list is shorter than PART1_LEN
D18_get_prefix(inp) ==
    IF D18_PART1_LEN <= Len(inp) THEN Some(SubSeq(inp, 1, D18_PART1_LEN)) ELSE None

\* Day18::part_1; Panic for either failed unwrap
D18_part_1(inp) ==
    LET goal == <<D18_GRID_SIZE - 1, D18_GRID_SIZE - 1>>
        prefix == D18_get_prefix(inp)
    IN  IF prefix = None THEN [input |-> inp, out |-> Panic]
        ELSE LET grid == D18_make_grid(prefix[1])
                 found == D18_astar(grid, <<0, 0>>, goal)
             IN  IF found = None THEN [input |-> inp, out |-> Panic]
                 ELSE [input |-> inp, out |-> Value(found[1])]

\* parse_pos on the two numbers of the line
D18_parse_pos(line) == [x |-> parse_digits(line[1])[1], y |-> parse_digits(line[2])[1]]

\* Day18::parser on a text given as the numbers of its lines (one line at least).
D18_parser(text) == [i \in 1..Len(text) |-> D18_parse_pos(text[i])]

\* Input texts of Day 18: up to D18_MaxLines lines out of D18_Lines.
D18_Lines ==
    { << <<"1">>, <<"0">> >>, << <<"0">>, <<"1">> >>, << <<"1">>, <<"1">> >>,
      << <<"2">>, <<"1">> >>, << <<"1", "2">>, <<"0">> >> }
D18_MaxLines == 3

D18_Texts == UNION {[1..n -> D18_Lines] : n \in 1..D18_MaxLines}

D18_Init ==
    /\ day = "day18"
    /\ raw \in D18_Texts
    /\ input = Nothing
    /\ work = Nothing
    /\ pc = "Idle"
    /\ out1 = Nothing
    /\ out2 = Nothing

\* Day18::parser(&mut raw)
D18_Parse ==
    /\ day = "day18" /\ pc = "Idle"
    /\ input' = D18_parser(raw)
    /\ pc' = "Parsed"
    /\ UNCHANGED <<day, raw, work, out1, out2>>

\* Day18::part_1(&input)
D18_Part1 ==
    /\ day = "day18" /\ pc = "Parsed"
    /\ LET r == D18_part_1(input) IN
        /\ input' = r.input
        /\ out1' = r.out
        /\ pc' = IF r.out = Panic THEN "Aborted" ELSE "SolvedPart1"
    /\ UNCHANGED <<day, raw, work, out2>>

\* Day 13 and Day 18 run up to part_1.
TotalInit == D13_Init \/ D18_Init

TotalNext == D13_Parse \/ D13_Part1 \/ D18_Parse \/ D18_Part1

SpecTotal == TotalInit /\ [][TotalNext]_vars

(***************************************************************************)
(* C3: the parts return a value on every parsed input                      *)
(***************************************************************************)
\* C3: part_1 run on an input the parser accepted returns a value, it does not abort.
C3_Total ==
    day \in {"day13", "day18"} /\ out1 # Nothing => out1 # Panic

\* Day 13, buttons A = (1,1) and B = (2,2) are parallel: part_1 aborts dividing by zero.
C3_ParallelButtons ==
    /\ day = "day13"
    /\ raw = <<[a |-> << <<"1">>, <<"1">> >>, b |-> << <<"2">>, <<"2">> >>,
               prize |-> << <<"4">>, <<"4">> >>]>>
    /\ out1 = Panic

\* Day 18, a list shorter than PART1_LEN: part_1 aborts on the unwrap of the slice.
C3_ShortList ==
    /\ day = "day18" /\ pc = "Aborted" /\ Len(input) < D18_PART1_LEN
    /\ out1 = Panic

(***************************************************************************)
(* Day 01 and Day 02: the parsers                                          *)
(***************************************************************************)
\* A text is the sequence of its characters.  A parser returns ok, its value and the
\* rest of the text; when it fails (winnow's Backtrack) the caller keeps the text it had.
ParseOk(v, rest) == [ok |-> TRUE, v |-> v, rest |-> rest]
ParseErr == [ok |-> FALSE]

\* The longest prefix of s made of characters of the set cs.
RECURSIVE take_while(_, _)
take_while(s, cs) ==
    IF s # <<>> /\ Head(s) \in cs THEN <<Head(s)>> \o take_while(Tail(s), cs) ELSE <<>>

drop(s, n) == SubSeq(s, n + 1, Len(s))

\* winnow::ascii::digit1
digit1(s) ==
    LET d == take_while(s, {String_Digits[i] : i \in 1..Len(String_Digits)}) IN
    IF d = <<>> THEN ParseErr ELSE ParseOk(d, drop(s, Len(d)))

\* winnow::ascii::space1
space1(s) ==
    LET d == take_while(s, {" ", "\t"}) IN
    IF d = <<>> THEN ParseErr ELSE ParseOk(d, drop(s, Len(d)))

\* a one-character literal, such as winnow::ascii::newline
literal(s, c) ==
    IF s # <<>> /\ Head(s) = c THEN ParseOk(c, Tail(s)) ELSE ParseErr

\* winnow::ascii::line_ending: "\n" or "\r\n"
line_ending(s) ==
    IF s # <<>> /\ Head(s) = "\n" THEN ParseOk("\n", Tail(s))
    ELSE IF Len(s) >= 2 /\ s[1] = "\r" /\ s[2] = "\n" THEN ParseOk("\r\n", drop(s, 2))
    ELSE ParseErr

\* digit1.parse_to::<iN>(): the digits as a number, an error when it exceeds max
digit1_parse_to(s, max) ==
    LET d == digit1(s) IN
    IF ~d.ok THEN ParseErr
    ELSE IF parse_digits(d.v)[1] > max THEN ParseErr
    ELSE ParseOk(parse_digits(d.v)[1], d.rest)

D01_I32_MAX == 2147483647

\* Day 01 parse_line: separated_pair(digit1.parse_to(), space1, digit1.parse_to())
D01_parse_line(s) ==
    LET a == digit1_parse_to(s, D01_I32_MAX) IN
    IF ~a.ok THEN ParseErr
    ELSE LET sp == space1(a.rest) IN
         IF ~sp.ok THEN ParseErr
         ELSE LET b == digit1_parse_to(sp.rest, D01_I32_MAX) IN
              IF ~b.ok THEN ParseErr ELSE ParseOk(<<a.v, b.v>>, b.rest)

\* The loop of separated(.., parse_line, newline) after the first element: a separator
\* and an element are taken together or not at all.
RECURSIVE D01_separated_more(_, _)
D01_separated_more(acc, s) ==
    LET sep == literal(s, "\n") IN
    IF ~sep.ok THEN ParseOk(acc, s)
    ELSE LET e == D01_parse_line(sep.rest) IN
         IF ~e.ok THEN ParseOk(acc, s)
         ELSE D01_separated_more(Append(acc, e.v), e.rest)

\* separated(0.., parse_line, newline): no element at all is accepted
D01_separated(s) ==
    LET e == D01_parse_line(s) IN
    IF ~e.ok THEN ParseOk(<<>>, s) ELSE D01_separated_more(<<e.v>>, e.rest)

\* Day01::parser
D01_parser(s) ==
    LET lines == D01_separated(s) IN
    IF ~lines.ok THEN ParseErr
    ELSE ParseOk([a |-> [i \in 1..Len(lines.v) |-> lines.v[i][1]],
                  b |-> [i \in 1..Len(lines.v) |-> lines.v[i][2]]], lines.rest)

D02_I16_MAX == 32767

\* Day 02 parse_report: separated(1.., digit1.parse_to::<i16>(), ' ')
RECURSIVE D02_report_more(_, _)
D02_report_more(acc, s) ==
    LET sep == literal(s, " ") IN
    IF ~sep.ok THEN ParseOk(acc, s)
    ELSE LET e == digit1_parse_to(sep.rest, D02_I16_MAX) IN
         IF ~e.ok THEN ParseOk(acc, s)
         ELSE D02_report_more(Append(acc, e.v), e.rest)

D02_parse_report(s) ==
    LET e == digit1_parse_to(s, D02_I16_MAX) IN
    IF ~e.ok THEN ParseErr ELSE D02_report_more(<<e.v>>, e.rest)

\* Day02::parser: separated(1.., parse_report, line_ending)
RECURSIVE D02_parser_more(_, _)
D02_parser_more(acc, s) ==
    LET sep == line_ending(s) IN
    IF ~sep.ok THEN ParseOk(acc, s)
    ELSE LET e == D02_parse_report(sep.rest) IN
         IF ~e.ok THEN ParseOk(acc, s)
         ELSE D02_parser_more(Append(acc, e.v), e.rest)

D02_parser(s) ==
    LET e == D02_parse_report(s) IN
    IF ~e.ok THEN ParseErr ELSE D02_parser_more(<<e.v>>, e.rest)

\* Raw texts: every text of up to ParseMaxLen characters of ParseChars.
ParseChars == {"1", " ", "\n", "x"}
ParseMaxLen == 7
ParseTexts == UNION {[1..n -> ParseChars] : n \in 0..ParseMaxLen}

ParseInit ==
    /\ day \in {"day01", "day02"}
    /\ raw \in ParseTexts
    /\ input = Nothing
    /\ work = Nothing
    /\ pc = "Idle"
    /\ out1 = Nothing
    /\ out2 = Nothing

\* Day01::parser(&mut raw); work keeps what the parser left of the text
D01_Parse ==
    /\ day = "day01" /\ pc = "Idle"
    /\ LET r == D01_parser(raw) IN
        IF r.ok
        THEN /\ input' = r.v
             /\ work' = [rest |-> r.rest]
             /\ pc' = "Parsed"
        ELSE /\ pc' = "ParseError"
             /\ UNCHANGED <<input, work>>
    /\ UNCHANGED <<day, raw, out1, out2>>

\* Day02::parser(&mut raw)
D02_Parse ==
    /\ day = "day02" /\ pc = "Idle"
    /\ LET r == D02_parser(raw) IN
        IF r.ok
        THEN /\ input' = r.v
             /\ work' = [rest |-> r.rest]
             /\ pc' = "Parsed"
        ELSE /\ pc' = "ParseError"
             /\ UNCHANGED <<input, work>>
    /\ UNCHANGED <<day, raw, out1, out2>>

ParseNext == D01_Parse \/ D02_Parse

SpecParse == ParseInit /\ [][ParseNext]_vars

(***************************************************************************)
(* C4: malformed input is rejected                                         *)
(***************************************************************************)
\* C4: a parser that returns a parsed value has consumed the whole text (the value is
\* not built from a prefix), and the value of Day 01 has one record at least.
C4_Rejects ==
    day \in {"day01", "day02"} /\ pc = "Parsed" =>
        /\ work.rest = <<>>
        /\ day = "day01" => Len(input.a) > 0

\* Day 01 accepts the text "x" with no record at all.
C4_ZeroRecords ==
    /\ day = "day01" /\ raw = <<"x">> /\ pc = "Parsed"
    /\ input = [a |-> <<>>, b |-> <<>>] /\ work.rest = <<"x">>

\* Day 02 accepts the text "1 1", newline, "x": the value is built from the first line.
C4_Prefix ==
    /\ day = "day02" /\ raw = <<"1", " ", "1", "\n", "x">> /\ pc = "Parsed"
    /\ input = << <<1, 1>> >> /\ work.rest = <<"\n", "x">>

(***************************************************************************)
(* Day 09: the disk map (parser)                                           *)
(***************************************************************************)
\* char::to_digit(10)
D09_to_digit(c) ==
    IF \E d \in 1..Len(String_Digits) : String_Digits[d] = c
    THEN Some(IndexOf(String_Digits, c) - 1) ELSE None

\* Day09::parser: repeat(1.., any) takes every character of the text and fails on an
\* empty text; the unwrap of to_digit aborts on a character that is not a digit.
D09_parser(s) ==
    IF s = <<>> THEN ParseErr
    ELSE IF \E i \in 1..Len(s) : D09_to_digit(s[i]) = None THEN Panic
    ELSE ParseOk([i \in 1..Len(s) |-> D09_to_digit(s[i])[1]], <<>>)

(***************************************************************************)
(* Day 17: the three-bit computer (parser)                                 *)
(***************************************************************************)
D17_U8_MAX == 255

\* the match on instr[1]: Panic stands for unimplemented!()
D17_combo(operand) ==
    IF operand \in 0..3 THEN Value([kind |-> "Lit", v |-> operand])
    ELSE IF operand = 4 THEN Value([kind |-> "RegisterA"])
    ELSE IF operand = 5 THEN Value([kind |-> "RegisterB"])
    ELSE IF operand = 6 THEN Value([kind |-> "RegisterC"])
    ELSE Panic

\* the closure of the parser on one chunk of two bytes; the operand is decoded first,
\* for every opcode
D17_decode(instr) ==
    LET op == D17_combo(instr[2]) IN
    IF op = Panic THEN Panic
    ELSE CASE instr[1] = 0 -> Value([op |-> "Adv", arg |-> op.v])
           [] instr[1] = 1 -> Value([op |-> "Bxl", arg |-> instr[2]])
           [] instr[1] = 2 -> Value([op |-> "Bst", arg |-> op.v])
           [] instr[1] = 3 -> Value([op |-> "Jnz", arg |-> instr[2]])
           [] instr[1] = 4 -> Value([op |-> "Bxc"])
           [] instr[1] = 5 -> Value([op |-> "Out", arg |-> op.v])
           [] instr[1] = 6 -> Value([op |-> "Bdv", arg |-> op.v])
           [] instr[1] = 7 -> Value([op |-> "Cdv", arg |-> op.v])
           [] OTHER -> Panic

\* instructions.chunks_exact(2).map(..).collect(): a last byte without a partner is dropped
RECURSIVE D17_decode_all(_, _, _)
D17_decode_all(bytes, i, acc) ==
    IF i + 1 > Len(bytes) THEN Value(acc)
    ELSE LET d == D17_decode(<<bytes[i], bytes[i + 1]>>) IN
         IF d = Panic THEN Panic ELSE D17_decode_all(bytes, i + 2, Append(acc, d.v))

\* dec_uint::<_, u8, _> on the digits of a number: an error above 255
D17_dec_uint_u8(chars) ==
    IF parse_digits(chars)[1] > D17_U8_MAX THEN ParseErr
    ELSE ParseOk(parse_digits(chars)[1], <<>>)

\* parse_instructions: separated(1.., dec_uint, ',') keeps the bytes before the first
\* number that is not a u8, and fails when the first number is not one
RECURSIVE D17_bytes_prefix(_, _)
D17_bytes_prefix(program, i) ==
    IF i > Len(program) \/ ~D17_dec_uint_u8(program[i]).ok THEN <<>>
    ELSE <<D17_dec_uint_u8(program[i]).v>> \o D17_bytes_prefix(program, i + 1)

D17_parse_instructions(program) ==
    LET bytes == D17_bytes_prefix(program, 1) IN
    IF bytes = <<>> THEN ParseErr ELSE ParseOk(bytes, drop(program, Len(bytes)))

\* Day17::parser on a text given as the digits of the three registers and of the bytes
\* of the program.
D17_parser(text) ==
    LET instructions == D17_parse_instructions(text.program) IN
    IF ~instructions.ok THEN ParseErr
    ELSE LET instructions_parsed == D17_decode_all(instructions.v, 1, <<>>) IN
         IF instructions_parsed = Panic THEN Panic
         ELSE ParseOk([a |-> parse_digits(text.registers[1])[1],
                       b |-> parse_digits(text.registers[2])[1],
                       c |-> parse_digits(text.registers[3])[1],
                       pointer |-> 0,
                       instructions |-> instructions_parsed.v,
                       orig |-> instructions.v], instructions.rest)

\* Raw texts of Day 09: up to D09_MaxChars characters of D09_Chars; of Day 17: a
\* program of up to D17_MaxBytes bytes out of D17_Bytes.
D09_Chars == {"0", "1", "2", "\n", "x"}
D09_MaxChars == 3
D09_ParseTexts == UNION {[1..n -> D09_Chars] : n \in 0..D09_MaxChars}

D17_Bytes == {<<"0">>, <<"1">>, <<"3">>, <<"5">>, <<"7">>, <<"8">>, <<"2", "5", "6">>}
D17_MaxBytes == 3
D17_ParseTexts ==
    {[registers |-> << <<"7", "2", "9">>, <<"0">>, <<"0">> >>, program |-> p] :
        p \in UNION {[1..n -> D17_Bytes] : n \in 1..D17_MaxBytes}}

AbortInit ==
    /\ \/ day = "day09" /\ raw \in D09_ParseTexts
       \/ day = "day17" /\ raw \in D17_ParseTexts
    /\ input = Nothing
    /\ work = Nothing
    /\ pc = "Idle"
    /\ out1 = Nothing
    /\ out2 = Nothing

\* Day09::parser(&mut raw)
D09_Parse ==
    /\ day = "day09" /\ pc = "Idle"
    /\ LET r == D09_parser(raw) IN
        IF r = Panic THEN pc' = "Aborted" /\ input' = input
        ELSE IF r.ok THEN pc' = "Parsed" /\ input' = r.v
        ELSE pc' = "ParseError" /\ input' = input
    /\ UNCHANGED <<day, raw, work, out1, out2>>

\* Day17::parser(&mut raw)
D17_Parse ==
    /\ day = "day17" /\ pc = "Idle"
    /\ LET r == D17_parser(raw) IN
        IF r = Panic THEN pc' = "Aborted" /\ input' = input
        ELSE IF r.ok THEN pc' = "Parsed" /\ input' = r.v
        ELSE pc' = "ParseError" /\ input' = input
    /\ UNCHANGED <<day, raw, work, out1, out2>>

AbortNext == D09_Parse \/ D17_Parse

SpecAbort == AbortInit /\ [][AbortNext]_vars

(***************************************************************************)
(* C5: a parser ends with a value or a parse error                         *)
(***************************************************************************)
\* C5: on every text the parser ends with a parsed value or with a parse error; it
\* never aborts.
C5_NoAbort ==
    day \in {"day09", "day17"} => pc \in {"Idle", "Parsed", "ParseError"}

\* Day 09 aborts on a disk map followed by a newline.
C5_TrailingNewline ==
    day = "day09" /\ raw = <<"1", "2", "\n">> /\ pc = "Aborted"

\* Day 17 aborts on the program 1,7 (bxl 7).
C5_Bxl7 ==
    day = "day17" /\ raw.program = << <<"1">>, <<"7">> >> /\ pc = "Aborted"

(***************************************************************************)
(* Day 25: locks and keys                                                  *)
(***************************************************************************)
\* A schematic is the sequence of its seven rows of five characters.
\* parse_lock / parse_key after the first row: the count of '#' in each column of the
\* five rows that follow it; the last row is consumed unread.
D25_heights(item) ==
    [col \in 1..5 |-> Cardinality({row \in 2..6 : item[row][col] = "#"})]

D25_parse_lock(item) ==
    IF item[1] = <<"#", "#", "#", "#", "#">>
    THEN ParseOk([kind |-> "Lock", pins |-> D25_heights(item)], <<>>) ELSE ParseErr

D25_parse_key(item) ==
    IF item[1] = <<".", ".", ".", ".", ".">>
    THEN ParseOk([kind |-> "Key", pins |-> D25_heights(item)], <<>>) ELSE ParseErr

\* alt((parse_lock, parse_key))
D25_parse_item(item) ==
    IF D25_parse_lock(item).ok THEN D25_parse_lock(item) ELSE D25_parse_key(item)

\* separated(1.., alt((parse_lock, parse_key)), "\n\n"): the items before the first
\* schematic that is neither a lock nor a key
RECURSIVE D25_items(_, _)
D25_items(text, i) ==
    IF i > Len(text) \/ ~D25_parse_item(text[i]).ok THEN <<>>
    ELSE <<D25_parse_item(text[i]).v>> \o D25_items(text, i + 1)

\* Day25::parser on a text given as its schematics.
D25_parser(text) ==
    LET items == D25_items(text, 1)
        pins(kind) == LET sel == SelectSeq(items, LAMBDA p : p.kind = kind)
                      IN  [i \in 1..Len(sel) |-> sel[i].pins]
    IN  IF items = <<>> THEN ParseErr
        ELSE ParseOk([locks |-> pins("Lock"), keys |-> pins("Key")], drop(text, Len(items)))

\* overlaps: some pin where the two heights add up to more than 5
D25_overlaps(lock, key) == \E i \in 1..5 : lock[i] + key[i] > 5

\* Day25::part_1
D25_part_1(inp) ==
    [input |-> inp,
     out |-> Value(Cardinality({<<l, k>> \in (1..Len(inp.locks)) \X (1..Len(inp.keys)) :
                                   ~D25_overlaps(inp.locks[l], inp.keys[k])}))]

\* Day25::part_2: `0`
D25_part_2(inp) == [input |-> inp, out |-> Value(0)]

\* Input texts of Day 25: up to D25_MaxItems schematics, locks and keys whose pins have
\* the heights of D25_Heights, and one schematic that is neither.
D25_Heights == {<<0, 5, 3, 4, 3>>, <<3, 0, 2, 0, 1>>, <<5, 0, 2, 1, 3>>}
D25_MaxItems == 3

D25_MkLock(h) ==
    [row \in 1..7 |-> [col \in 1..5 |->
        IF row = 1 THEN "#" ELSE IF row = 7 THEN "." ELSE IF row - 1 <= h[col] THEN "#" ELSE "."]]

D25_MkKey(h) ==
    [row \in 1..7 |-> [col \in 1..5 |->
        IF row = 1 THEN "." ELSE IF row = 7 THEN "#" ELSE IF 7 - row <= h[col] THEN "#" ELSE "."]]

D25_Schematics ==
    {D25_MkLock(h) : h \in D25_Heights} \cup {D25_MkKey(h) : h \in D25_Heights}
        \cup {[row \in 1..7 |-> <<"#", ".", "#", ".", "#">>]}

D25_Texts == UNION {[1..n -> D25_Schematics] : n \in 1..D25_MaxItems}

D25_Init ==
    /\ day = "day25"
    /\ raw \in D25_Texts
    /\ input = Nothing
    /\ work = Nothing
    /\ pc = "Idle"
    /\ out1 = Nothing
    /\ out2 = Nothing

\* Day25::parser(&mut raw)
D25_Parse ==
    /\ day = "day25" /\ pc = "Idle"
    /\ LET r == D25_parser(raw) IN
        IF r.ok THEN pc' = "Parsed" /\ input' = r.v
        ELSE pc' = "ParseError" /\ input' = input
    /\ UNCHANGED <<day, raw, work, out1, out2>>

\* Day25::part_1(&input)
D25_Part1 ==
    /\ day = "day25" /\ pc = "Parsed"
    /\ LET r == D25_part_1(input) IN
        /\ input' = r.input
        /\ out1' = r.out
    /\ pc' = "SolvedPart1"
    /\ UNCHANGED <<day, raw, work, out2>>

\* Day25::part_2(&input)
D25_Part2 ==
    /\ day = "day25" /\ pc \in {"Parsed", "SolvedPart1"}
    /\ LET r == D25_part_2(input) IN
        /\ input' = r.input
        /\ out2' = r.out
    /\ pc' = "SolvedPart2"
    /\ UNCHANGED <<day, raw, work, out1>>

D25_Next == D25_Parse \/ D25_Part1 \/ D25_Part2

SpecD25 == D25_Init /\ [][D25_Next]_vars

(***************************************************************************)
(* C6: the missing part two of Day 25                                      *)
(***************************************************************************)
\* C6: the outcome of Day25::part_2 is a signal of its own: it is none of the values
\* that a computed part returns (a count of lock and key pairs).
C6_DistinctSignal ==
    day = "day25" /\ pc = "SolvedPart2" =>
        out2 \notin {Value(n) : n \in 0..(D25_MaxItems * D25_MaxItems)}

\* A run in which part_1 computed 0 and part_2 returned the very same value.
C6_SameAsComputedZero ==
    /\ day = "day25" /\ pc = "SolvedPart2"
    /\ Len(input.locks) > 0 /\ Len(input.keys) > 0
    /\ out1 = Value(0) /\ out2 = out1

(***************************************************************************)
(* Day 11: the stones                                                      *)
(***************************************************************************)
\* The number of blinks of part_1 (25) and of part_2 (75), scaled down.
D11_PART1_BLINKS == 3
D11_PART2_BLINKS == 4

\* number.ilog10() + 1 for number > 0: the count of decimal digits
RECURSIVE D11_digits(_)
D11_digits(number) == IF number < 10 THEN 1 ELSE 1 + D11_digits(number \div 10)

\* 10u64.pow(e)
RECURSIVE D11_pow10(_)
D11_pow10(e) == IF e = 0 THEN 1 ELSE 10 * D11_pow10(e - 1)

\* a cache key that leaves out the number of blinks (not the code's key)
D11_cache_key_NumberOnly(number, remaining) == <<number, 0>>

\* the key `(number, remaining)` of the cache
D11_cache_key(number, remaining) == <<number, remaining>>

\* expanded_length: the value returned and the cache after the call (the value is
\* named first so that each call is evaluated before the call that follows it).
RECURSIVE D11_expanded_length(_, _, _)
D11_expanded_length(number, remaining, cache) ==
    IF remaining = 0 THEN [ret |-> 1, cache |-> cache]
    ELSE IF D11_cache_key(number, remaining) \in DOMAIN cache
    THEN [ret |-> cache[D11_cache_key(number, remaining)], cache |-> cache]
    ELSE
      LET res ==
            IF number = 0 THEN D11_expanded_length(1, remaining - 1, cache)
            ELSE IF D11_digits(number) % 2 = 0
            THEN LET power == D11_pow10(D11_digits(number) \div 2)
                     first == number \div power
                     second == number - first * power
                     r1 == D11_expanded_length(first, remaining - 1, cache)
                     r2 == D11_expanded_length(second, remaining - 1, r1.cache)
                 IN  [ret |-> r1.ret + r2.ret, cache |-> r2.cache]
            ELSE D11_expanded_length(number * 2024, remaining - 1, cache)
      IN  [ret |-> res.ret,
           cache |-> MapPut(res.cache, D11_cache_key(number, remaining), res.ret)]

\* A cache that is not created empty: it holds an entry of some earlier call.
D11_new_cache_Kept == MapPut(EmptyMap, <<1, 1>>, 1)

\* `let mut cache = HashMap::default()` of part_1 and part_2
D11_new_cache == EmptyMap

\* Day11::parser on a text given as the digits of its numbers.
D11_parser(text) == [i \in 1..Len(text) |-> parse_digits(text[i])[1]]

(***************************************************************************)
(* Day 19: the towels                                                      *)
(***************************************************************************)
\* str::strip_prefix
D19_strip_prefix(arr, towel) ==
    IF Len(towel) <= Len(arr) /\ SubSeq(arr, 1, Len(towel)) = towel
    THEN Some(drop(arr, Len(towel))) ELSE None

\* count_combinations: the cache after the call and the value returned; the loop over
\* the towels starts at index i with the running count res.
RECURSIVE D19_count_loop(_, _, _, _, _)
D19_count_combinations(arr, available, cache) ==
    IF arr \in DOMAIN cache THEN [cache |-> cache, ret |-> cache[arr]]
    ELSE LET r == D19_count_loop(arr, available, cache, 1, 0) IN
         [cache |-> MapPut(r.cache, arr, r.ret), ret |-> r.ret]

D19_count_loop(arr, available, cache, i, res) ==
    IF i > Len(available) THEN [cache |-> cache, ret |-> res]
    ELSE IF arr = available[i] THEN D19_count_loop(arr, available, cache, i + 1, res + 1)
    ELSE LET next == D19_strip_prefix(arr, available[i]) IN
         IF next = None THEN D19_count_loop(arr, available, cache, i + 1, res)
         ELSE LET r == D19_count_combinations(next[1], available, cache) IN
              D19_count_loop(arr, available, r.cache, i + 1, res + r.ret)

\* `let mut cache = HashMap::default()` of part_2
D19_new_cache == EmptyMap

\* Day19::parser on a text given as its towels and its designs.
D19_parser(text) == [available |-> text.available, desired |-> text.desired]

\* Input texts of Day 11: up to D11_MaxStones numbers of D11_Numbers; of Day 19: towels
\* D19_Towels and up to D19_MaxDesigns designs of D19_Designs.
D11_Numbers == {<<"0">>, <<"1">>, <<"7">>, <<"1", "0">>, <<"9", "9">>}
D11_MaxStones == 2
D11_Texts == UNION {[1..n -> D11_Numbers] : n \in 1..D11_MaxStones}

D19_Towels == {<< <<"a">>, <<"b">>, <<"a", "b">> >>, << <<"a", "b">>, <<"b", "a">>, <<"a">> >>}
D19_Designs == {<<"a", "b">>, <<"a", "a", "b">>, <<"a", "b", "a", "b">>, <<"b", "b">>}
D19_MaxDesigns == 2
D19_Texts ==
    {[available |-> t, desired |-> d] :
        t \in D19_Towels, d \in UNION {[1..n -> D19_Designs] : n \in 1..D19_MaxDesigns}}

MemoInit ==
    /\ \/ day = "day11" /\ raw \in D11_Texts
       \/ day = "day19" /\ raw \in D19_Texts
    /\ input = Nothing
    /\ work = Nothing
    /\ pc = "Idle"
    /\ out1 = Nothing
    /\ out2 = Nothing

\* Day11::parser(&mut raw)
D11_Parse ==
    /\ day = "day11" /\ pc = "Idle"
    /\ input' = D11_parser(raw)
    /\ pc' = "Parsed"
    /\ UNCHANGED <<day, raw, work, out1, out2>>

\* The number of blinks of the part that is running.
D11_blinks == IF pc = "SolvingPart1" THEN D11_PART1_BLINKS ELSE D11_PART2_BLINKS

\* Day11::part_1 / part_2 are entered, any number of times in any order: the cache is created
D11_PartBegin ==
    /\ day = "day11" /\ pc = "Parsed"
    /\ pc' \in {"SolvingPart1", "SolvingPart2"}
    /\ work' = [cache |-> D11_new_cache, i |-> 1, sum |-> 0]
    /\ UNCHANGED <<day, raw, input, out1, out2>>

\* one step of `.map(|v| expanded_length(*v, .., &mut cache)).sum()`
D11_PartStone ==
    /\ day = "day11" /\ pc \in {"SolvingPart1", "SolvingPart2"}
    /\ work.i <= Len(input)
    /\ LET r == D11_expanded_length(input[work.i], D11_blinks, work.cache) IN
        work' = [cache |-> r.cache, i |-> work.i + 1, sum |-> work.sum + r.ret]
    /\ UNCHANGED <<day, raw, input, pc, out1, out2>>

\* the part returns the sum; its cache is dropped
D11_PartEnd ==
    /\ day = "day11" /\ pc \in {"SolvingPart1", "SolvingPart2"}
    /\ work.i > Len(input)
    /\ IF pc = "SolvingPart1"
       THEN out1' = Value(work.sum) /\ out2' = out2
       ELSE out2' = Value(work.sum) /\ out1' = out1
    /\ work' = Nothing
    /\ pc' = "Parsed"
    /\ UNCHANGED <<day, raw, input>>

\* Day19::parser(&mut raw)
D19_Parse ==
    /\ day = "day19" /\ pc = "Idle"
    /\ input' = D19_parser(raw)
    /\ pc' = "Parsed"
    /\ UNCHANGED <<day, raw, work, out1, out2>>

\* Day19::part_2 is entered, any number of times: the cache is created
D19_Part2Begin ==
    /\ day = "day19" /\ pc = "Parsed"
    /\ pc' = "SolvingPart2"
    /\ work' = [cache |-> D19_new_cache, i |-> 1, sum |-> 0]
    /\ UNCHANGED <<day, raw, input, out1, out2>>

\* one step of `.map(|d| count_combinations(d, &input.available, &mut cache)).sum()`
D19_Part2Design ==
    /\ day = "day19" /\ pc = "SolvingPart2"
    /\ work.i <= Len(input.desired)
    /\ LET r == D19_count_combinations(input.desired[work.i], input.available, work.cache) IN
        work' = [cache |-> r.cache, i |-> work.i + 1, sum |-> work.sum + r.ret]
    /\ UNCHANGED <<day, raw, input, pc, out1, out2>>

\* part_2 returns the sum; its cache is dropped
D19_Part2End ==
    /\ day = "day19" /\ pc = "SolvingPart2"
    /\ work.i > Len(input.desired)
    /\ out2' = Value(work.sum)
    /\ work' = Nothing
    /\ pc' = "Parsed"
    /\ UNCHANGED <<day, raw, input, out1>>

MemoNext ==
    \/ D11_Parse \/ D11_PartBegin \/ D11_PartStone \/ D11_PartEnd
    \/ D19_Parse \/ D19_Part2Begin \/ D19_Part2Design \/ D19_Part2End

SpecMemo == MemoInit /\ [][MemoNext]_vars

(***************************************************************************)
(* C8: the memoisation caches live within one invocation of a part         *)
(***************************************************************************)
\* The cache and the sum that the first n calls of one invocation produce when the
\* invocation starts with an empty cache.
RECURSIVE C8_D11_Fresh(_, _, _)
C8_D11_Fresh(inp, n, blinks) ==
    IF n = 0 THEN [cache |-> EmptyMap, sum |-> 0]
    ELSE LET prev == C8_D11_Fresh(inp, n - 1, blinks)
             r == D11_expanded_length(inp[n], blinks, prev.cache)
         IN  [cache |-> r.cache, sum |-> prev.sum + r.ret]

RECURSIVE C8_D19_Fresh(_, _)
C8_D19_Fresh(inp, n) ==
    IF n = 0 THEN [cache |-> EmptyMap, sum |-> 0]
    ELSE LET prev == C8_D19_Fresh(inp, n - 1)
             r == D19_count_combinations(inp.desired[n], inp.available, prev.cache)
         IN  [cache |-> r.cache, sum |-> prev.sum + r.ret]

C8_WitnessTowels ==
    /\ day = "day19" /\ pc = "SolvingPart2"
    /\ out2 # Nothing /\ out2.v > 1
    /\ work.i = 2 /\ input.desired[1] \in DOMAIN work.cache

(***************************************************************************)
(* Day 09: the iterator of part_1                                          *)
(***************************************************************************)
\* MapIterator::is_file
D09_is_file(pos) == pos % 2 = 0

\* self.map[i]: the index is checked, positions count from 0
D09_in_range(self, i) == i >= 0 /\ i < Len(self.map)
D09_at(self, i) == self.map[i + 1]

\* DiskMap::into_iter; Panic when the assertion on the length fails
D09_into_iter(disk_map) ==
    IF Len(disk_map) % 2 # 1 THEN Panic
    ELSE Value([map |-> disk_map,
                pos_head |-> 0,
                pos_tail |-> Len(disk_map) - 1,
                remaining_head |-> disk_map[1]])

\* The arm (true, 1.., _) of next: a sector of the file under the head.
D09_next_file(self) ==
    IF self.pos_head > self.pos_tail + 1 THEN [self |-> self, ret |-> Value(None)]
    ELSE IF self.remaining_head - 1 = 0
    THEN IF ~D09_in_range(self, self.pos_head + 1) THEN [self |-> self, ret |-> Panic]
         ELSE [self |-> [self EXCEPT !.pos_head = @ + 1,
                                     !.remaining_head = D09_at(self, self.pos_head + 1)],
               ret |-> Value(Some((self.pos_head + 1) \div 2))]
    ELSE [self |-> [self EXCEPT !.remaining_head = @ - 1],
          ret |-> Value(Some(self.pos_head \div 2))]

\* The arm (false, 0, _) of next: no free sector, on to the first sector of the next file.
\* The subtraction on a file of size 0 overflows the u8 (a panic of the checked build).
D09_next_no_space(self) ==
    IF self.pos_head > self.pos_tail THEN [self |-> self, ret |-> Value(None)]
    ELSE IF ~D09_in_range(self, self.pos_head + 1) THEN [self |-> self, ret |-> Panic]
    ELSE IF D09_at(self, self.pos_head + 1) = 0 THEN [self |-> self, ret |-> Panic]
    ELSE IF D09_at(self, self.pos_head + 1) - 1 = 0
    THEN IF ~D09_in_range(self, self.pos_head + 2) THEN [self |-> self, ret |-> Panic]
         ELSE [self |-> [self EXCEPT !.pos_head = @ + 2,
                                     !.remaining_head = D09_at(self, self.pos_head + 2)],
               ret |-> Value(Some((self.pos_head + 2) \div 2))]
    ELSE IF self.pos_head + 1 = self.pos_tail
    THEN [self |-> [self EXCEPT !.pos_head = @ + 1,
                                !.remaining_head = D09_at(self, self.pos_tail) - 1],
          ret |-> Value(Some((self.pos_head + 1) \div 2))]
    ELSE [self |-> [self EXCEPT !.pos_head = @ + 1,
                                !.remaining_head = D09_at(self, self.pos_head + 1) - 1],
          ret |-> Value(Some((self.pos_head + 1) \div 2))]

\* The arm (false, 1.., 1..) of next: a sector of the tail file is copied into the free
\* sector under the head.  `pos_tail -= 2` on a tail at 0 overflows the usize (a panic
\* of the checked build).
D09_next_copy(self) ==
    IF self.pos_head > self.pos_tail THEN [self |-> self, ret |-> Value(None)]
    ELSE
      LET s1 == [self EXCEPT !.map[self.pos_tail + 1] = @ - 1, !.remaining_head = @ - 1]
          id == self.pos_tail \div 2
      IN  IF s1.remaining_head = 0 /\ ~D09_in_range(s1, s1.pos_head + 1)
          THEN [self |-> s1, ret |-> Panic]
          ELSE
            LET s2 == IF s1.remaining_head = 0
                      THEN [s1 EXCEPT !.pos_head = @ + 1,
                                      !.remaining_head = D09_at(s1, s1.pos_head + 1)]
                      ELSE s1
            IN  IF D09_at(s2, s2.pos_tail) = 0 /\ s2.pos_tail < 2
                THEN [self |-> s2, ret |-> Panic]
                ELSE
                  LET s3 == IF D09_at(s2, s2.pos_tail) = 0
                            THEN [s2 EXCEPT !.pos_tail = @ - 2] ELSE s2
                      s4 == IF s3.pos_head = s3.pos_tail
                            THEN [s3 EXCEPT !.remaining_head = D09_at(s3, s3.pos_tail)]
                            ELSE s3
                  IN  [self |-> s4, ret |-> Value(Some(id))]

\* MapIterator::next: the iterator after the call, and Panic or the Option returned.
D09_next(self) ==
    IF ~D09_in_range(self, self.pos_tail) THEN [self |-> self, ret |-> Panic]
    ELSE IF D09_is_file(self.pos_head)
    THEN IF self.remaining_head = 0 THEN [self |-> self, ret |-> Panic]
         ELSE D09_next_file(self)
    ELSE IF self.remaining_head = 0 THEN D09_next_no_space(self)
    ELSE IF D09_at(self, self.pos_tail) = 0 THEN [self |-> self, ret |-> Panic]
    ELSE D09_next_copy(self)

\* Input texts of Day 09 that are disk maps: an odd number of digits, up to
\* D09_MaxMapLen, no file of size 0; and the example.
D09_MaxMapLen == 5
D09_FileDigits == {"1", "2", "3"}
D09_FreeDigits == {"0", "1", "2"}
D09_INPUT ==
    <<"2", "3", "3", "3", "1", "3", "3", "1", "2", "1", "4", "1", "4", "1", "3", "1", "4", "0", "2">>

D09_Maps ==
    {D09_INPUT} \cup
    UNION {{m \in [1..n -> D09_FileDigits \cup D09_FreeDigits] :
               \A i \in 1..n : m[i] \in (IF i % 2 = 1 THEN D09_FileDigits ELSE D09_FreeDigits)} :
           n \in {k \in 1..D09_MaxMapLen : k % 2 = 1}}

D09_Init ==
    /\ day = "day09"
    /\ raw \in D09_Maps
    /\ input = Nothing
    /\ work = Nothing
    /\ pc = "Idle"
    /\ out1 = Nothing
    /\ out2 = Nothing

\* Day09::part_1 begins: input.clone().into_iter(); work also records the IDs yielded
D09_Part1Begin ==
    /\ day = "day09" /\ pc = "Parsed"
    /\ LET r == D09_into_iter(input) IN
        IF r = Panic
        THEN /\ pc' = "Aborted"
             /\ out1' = Panic
             /\ work' = work
        ELSE /\ pc' = "SolvingPart1"
             /\ out1' = out1
             /\ work' = [iter |-> r.v, yielded |-> <<>>, sum |-> 0]
    /\ UNCHANGED <<day, raw, input, out2>>

\* one call of next() by `.enumerate().map(|(i, id)| i * id).sum()`
D09_Part1Next ==
    /\ day = "day09" /\ pc = "SolvingPart1"
    /\ LET r == D09_next(work.iter) IN
        IF r.ret = Panic
        THEN /\ pc' = "Aborted"
             /\ out1' = Panic
             /\ work' = [work EXCEPT !.iter = r.self]
        ELSE IF r.ret.v = None
        THEN /\ pc' = "SolvedPart1"
             /\ out1' = Value(work.sum)
             /\ work' = [work EXCEPT !.iter = r.self]
        ELSE /\ pc' = pc
             /\ out1' = out1
             /\ work' = [iter |-> r.self,
                         yielded |-> Append(work.yielded, r.ret.v[1]),
                         sum |-> work.sum + Len(work.yielded) * r.ret.v[1]]
    /\ UNCHANGED <<day, raw, input, out2>>

D09_Next == D09_Parse \/ D09_Part1Begin \/ D09_Part1Next

SpecD09 == D09_Init /\ [][D09_Next]_vars

(***************************************************************************)
(* C10: part_1 of Day 09 yields the compacted disk                         *)
(***************************************************************************)
\* The disk of a map: the file ID of every block, -1 for a free block.
RECURSIVE C10_Disk(_, _)
C10_Disk(map, i) ==
    IF i > Len(map) THEN <<>>
    ELSE [k \in 1..map[i] |-> IF i % 2 = 1 THEN (i - 1) \div 2 ELSE -1] \o C10_Disk(map, i + 1)

\* The last file block is moved into the leftmost free block until no free block lies
\* to the left of a file block.
RECURSIVE C10_Compact(_)
C10_Compact(disk) ==
    LET free == {i \in 1..Len(disk) : disk[i] = -1}
        file == {i \in 1..Len(disk) : disk[i] # -1}
    IN  IF free = {} \/ file = {} THEN disk
        ELSE LET f == CHOOSE i \in free : \A j \in free : i <= j
                 l == CHOOSE i \in file : \A j \in file : j <= i
             IN  IF f > l THEN disk
                 ELSE C10_Compact([disk EXCEPT ![f] = disk[l], ![l] = -1])

\* The file IDs of the compacted disk, block by block from position 0.
C10_Compacted(map) == SelectSeq(C10_Compact(C10_Disk(map, 1)), LAMBDA id : id # -1)

RECURSIVE C10_Checksum(_, _)
C10_Checksum(ids, i) ==
    IF i > Len(ids) THEN 0 ELSE (i - 1) * ids[i] + C10_Checksum(ids, i + 1)

\* C10: on every disk map part_1 returns; the sequence MapIterator yields is the
\* compacted disk and the result is its checksum; 1928 for the example.
C10_Compaction ==
    day = "day09" =>
        /\ pc # "Aborted"
        /\ pc = "SolvedPart1" =>
               /\ work.yielded = C10_Compacted(input)
               /\ out1 = Value(C10_Checksum(C10_Compacted(input), 1))
               /\ raw = D09_INPUT => out1 = Value(1928)

\* The disk map "1": the iterator reads the map past its end after the only block.
C10_SingleFile ==
    /\ day = "day09" /\ raw = <<"1">> /\ pc = "Aborted"
    /\ work.yielded = <<>> /\ out1 = Panic

\* The disk map "111": the iterator reaches the arm "empty file, should not happen".
C10_EmptyFileArm ==
    /\ day = "day09" /\ raw = <<"1", "1", "1">> /\ pc = "Aborted"
    /\ D09_is_file(work.iter.pos_head) /\ work.iter.remaining_head = 0

\* The example is iterated to its end: 1928.
C10_Example ==
    /\ day = "day09" /\ raw = D09_INPUT /\ pc = "SolvedPart1"
    /\ work.yielded = C10_Compacted(input) /\ out1 = Value(1928)

\* ---------------------------------------------------------------------------
\* Day 09, part 2: whole files are moved into holes
\* ---------------------------------------------------------------------------

\* usize::MAX, the initial last_id; it is only compared with file IDs, so the
\* largest integer of TLC stands for it
D09_USIZE_MAX == 2147483647

\* the flat_map of part_2: Some(i / 2) for the blocks of a file, None for free blocks
RECURSIVE D09_sectors(_, _)
D09_sectors(map, i) ==
    IF i >= Len(map) THEN <<>>
    ELSE [k \in 1..map[i + 1] |-> IF i % 2 = 0 THEN Some(i \div 2) ELSE None]
             \o D09_sectors(map, i + 1)

\* out.iter().skip(j).take_while(|v| v.is_none()).count()
RECURSIVE D09_hole_size(_, _)
D09_hole_size(out, j) ==
    IF j < Len(out) /\ out[j + 1] = None THEN 1 + D09_hole_size(out, j + 1) ELSE 0

\* out.swap(a, b)
D09_swap(out, a, b) == [out EXCEPT ![a + 1] = out[b + 1], ![b + 1] = out[a + 1]]

\* a hole that is strictly too large only (not the code's comparison)
D09_hole_fits_Larger(hole_size, file_size) == hole_size > file_size

\* hole_size >= file_size
D09_hole_fits(hole_size, file_size) == hole_size >= file_size

\* while file_size > 0 { out.swap(j + file_size - 1, i - file_size + 1); file_size -= 1; }
RECURSIVE D09_move_file(_, _, _, _)
D09_move_file(out, j, i, file_size) ==
    IF file_size > 0
    THEN D09_move_file(D09_swap(out, j + file_size - 1, i - file_size + 1), j, i, file_size - 1)
    ELSE out

\* i.saturating_sub(n)
D09_saturating_sub(i, n) == IF i >= n THEN i - n ELSE 0

\* the loop `while j < len` searching a hole for the file that ends at sector i;
\* the result holds the disk and the file_size left (0 after a move)
RECURSIVE D09_find_hole(_, _, _, _)
D09_find_hole(out, i, file_size, j) ==
    IF j >= Len(out) THEN [out |-> out, file_size |-> file_size]
    ELSE IF out[j + 1] # None THEN D09_find_hole(out, i, file_size, j + 1)
    ELSE IF j > D09_saturating_sub(i, file_size) THEN [out |-> out, file_size |-> file_size]
    ELSE LET hole_size == D09_hole_size(out, j) IN
         IF D09_hole_fits(hole_size, file_size)
         THEN [out |-> D09_move_file(out, j, i, file_size), file_size |-> 0]
         ELSE D09_find_hole(out, i, file_size, j + hole_size)

\* one pass of the loop `while i > 0` of part_2; self = [map, out, i, last_id, considered],
\* considered lists the IDs assigned to last_id so far
D09_part_2_pass(self) ==
    IF self.out[self.i + 1] = None THEN [self EXCEPT !.i = self.i - 1]
    ELSE LET id == self.out[self.i + 1][1] IN
         IF id >= self.last_id THEN [self EXCEPT !.i = self.i - 1]
         ELSE LET r == D09_find_hole(self.out, self.i, self.map[id * 2 + 1], 0) IN
              [self EXCEPT !.last_id = id,
                           !.considered = Append(self.considered, id),
                           !.out = r.out,
                           !.i = D09_saturating_sub(self.i, r.file_size)]

\* out.into_iter().enumerate().map(|(i, id)| i * id.unwrap_or_default()).sum()
RECURSIVE D09_checksum(_, _)
D09_checksum(out, i) ==
    IF i >= Len(out) THEN 0
    ELSE i * (IF out[i + 1] = None THEN 0 ELSE out[i + 1][1]) + D09_checksum(out, i + 1)

\* Day09::part_2 begins: the disk is laid out; `len - 1` overflows on a disk without blocks
D09_Part2Begin ==
    /\ day = "day09" /\ pc = "Parsed"
    /\ LET out == D09_sectors(input, 0) IN
        IF Len(out) = 0
        THEN /\ pc' = "Aborted"
             /\ out2' = Panic
             /\ work' = work
        ELSE /\ pc' = "SolvingPart2"
             /\ out2' = out2
             /\ work' = [map |-> input, out |-> out, i |-> Len(out) - 1,
                         last_id |-> D09_USIZE_MAX, considered |-> <<>>]
    /\ UNCHANGED <<day, raw, input, out1>>

\* one pass of `while i > 0`
D09_Part2Pass ==
    /\ day = "day09" /\ pc = "SolvingPart2" /\ work.i > 0
    /\ work' = D09_part_2_pass(work)
    /\ UNCHANGED <<day, raw, input, pc, out1, out2>>

\* the loop is left and the checksum is summed
D09_Part2End ==
    /\ day = "day09" /\ pc = "SolvingPart2" /\ work.i = 0
    /\ pc' = "SolvedPart2"
    /\ out2' = Value(D09_checksum(work.out, 0))
    /\ UNCHANGED <<day, raw, input, work, out1>>

D09_Part2Next == D09_Parse \/ D09_Part2Begin \/ D09_Part2Pass \/ D09_Part2End

SpecD09Part2 == D09_Init /\ [][D09_Part2Next]_vars

\* --- C11 ---

\* the first position (from 1) at or after j, before `start`, where a run of at least
\* `size` free blocks begins; 0 when there is none
RECURSIVE C11_LeftmostRun(_, _, _, _)
C11_LeftmostRun(disk, start, size, j) ==
    IF j + size > start THEN 0
    ELSE IF \A k \in j..(j + size - 1) : disk[k] = -1 THEN j
    ELSE C11_LeftmostRun(disk, start, size, j + 1)

\* file `id` is moved as a whole to the leftmost sufficient run left of it, or stays
C11_MoveFile(disk, id) ==
    LET own == {k \in 1..Len(disk) : disk[k] = id} IN
    IF own = {} THEN disk
    ELSE LET start == CHOOSE k \in own : \A m \in own : k <= m
             size == Cardinality(own)
             j == C11_LeftmostRun(disk, start, size, 1)
         IN  IF j = 0 THEN disk
             ELSE [k \in 1..Len(disk) |->
                      IF k \in j..(j + size - 1) THEN id
                      ELSE IF k \in own THEN -1
                      ELSE disk[k]]

\* every file once, from the highest ID down to 0
RECURSIVE C11_MoveAll(_, _)
C11_MoveAll(disk, id) ==
    IF id < 0 THEN disk ELSE C11_MoveAll(C11_MoveFile(disk, id), id - 1)

C11_Final(map) == C11_MoveAll(C10_Disk(map, 1), (Len(map) - 1) \div 2)

\* the disk of part_2 as file IDs, -1 for a free block
C11_Ids(out) == [k \in 1..Len(out) |-> IF out[k] = None THEN -1 ELSE out[k][1]]

RECURSIVE C11_Sum(_, _)
C11_Sum(disk, k) ==
    IF k > Len(disk) THEN 0
    ELSE (k - 1) * (IF disk[k] = -1 THEN 0 ELSE disk[k]) + C11_Sum(disk, k + 1)

\* C11: part_2 considers the files in order of decreasing ID, none of them twice
\* and each file that has a block to its left once; each is moved as a whole to the
\* leftmost run of free blocks entirely to its left that is long enough, or stays;
\* the result is the sum of position x ID over the final disk; 2858 for the example.
C11_WholeFiles ==
    day = "day09" =>
        /\ pc # "Aborted"
        /\ pc \in {"SolvingPart2", "SolvedPart2"} =>
               \A a, b \in 1..Len(work.considered) :
                   a < b => work.considered[a] > work.considered[b]
        /\ pc = "SolvedPart2" =>
               /\ \A id \in 1..((Len(input) - 1) \div 2) :
                      \E a \in 1..Len(work.considered) : work.considered[a] = id
               /\ C11_Ids(work.out) = C11_Final(input)
               /\ out2 = Value(C11_Sum(C11_Final(input), 1))
               /\ raw = D09_INPUT => out2 = Value(2858)

\* the example is solved: files were moved and the sum is 2858
C11_Witness ==
    /\ day = "day09" /\ raw = D09_INPUT /\ pc = "SolvedPart2"
    /\ C11_Ids(work.out) # C10_Disk(input, 1)
    /\ out2 = Value(2858)

\* a file stays in place because no run to its left is long enough, while a
\* smaller file with a lower ID is moved
C11_WitnessStays ==
    /\ day = "day09" /\ raw = <<"1", "1", "1", "1", "2">> /\ pc = "SolvedPart2"
    /\ C11_Ids(work.out) = <<0, 1, -1, -1, 2, 2>>

\* ---------------------------------------------------------------------------
\* Day 11: expanded_length called with the caches of earlier calls, and part_1
\* with its 25 blinks
\* ---------------------------------------------------------------------------

\* the 25 of `expanded_length(*v, 25, &mut cache)` in part_1
D11_part_1_blinks == 25

\* Day11::part_1: one cache for all stones of the input
RECURSIVE D11_part_1_fold(_, _, _, _)
D11_part_1_fold(input_, i, cache, sum) ==
    IF i > Len(input_) THEN sum
    ELSE LET r == D11_expanded_length(input_[i], D11_part_1_blinks, cache) IN
         D11_part_1_fold(input_, i + 1, r.cache, sum + r.ret)

D11_part_1(input_) == D11_part_1_fold(input_, 1, D11_new_cache, 0)

\* the example "125 17"
D11_INPUT == << <<"1", "2", "5">>, <<"1", "7">> >>

\* the stones the calls are made for
D11_CallTexts ==
    {D11_INPUT, << <<"0">>, <<"1">> >>, << <<"1", "0">>, <<"9", "9">> >>}

D11_MaxBlinks == 3
D11_MaxCalls == 2

D11_CallInit ==
    /\ day = "day11"
    /\ raw \in D11_CallTexts
    /\ input = Nothing
    /\ work = Nothing
    /\ pc = "Idle"
    /\ out1 = Nothing
    /\ out2 = Nothing

\* a cache is created before the first call
D11_CallBegin ==
    /\ day = "day11" /\ pc = "Parsed" /\ out1 = Nothing
    /\ pc' = "Calling"
    /\ work' = [cache |-> D11_new_cache, calls |-> <<>>]
    /\ UNCHANGED <<day, raw, input, out1, out2>>

\* expanded_length(number, remaining, &mut cache) on the cache the earlier calls left;
\* the call is recorded with its result and with whether its key was in the cache
D11_Call ==
    /\ day = "day11" /\ pc = "Calling" /\ Len(work.calls) < D11_MaxCalls
    /\ \E i \in 1..Len(input), remaining \in 0..D11_MaxBlinks :
        LET r == D11_expanded_length(input[i], remaining, work.cache) IN
        work' = [cache |-> r.cache,
                 calls |-> Append(work.calls,
                              [number |-> input[i], remaining |-> remaining, ret |-> r.ret,
                               hit |-> D11_cache_key(input[i], remaining) \in DOMAIN work.cache])]
    /\ UNCHANGED <<day, raw, input, pc, out1, out2>>

\* Day11::part_1(&input)
D11_Part1 ==
    /\ day = "day11" /\ pc = "Parsed"
    /\ out1' = Value(D11_part_1(input))
    /\ pc' = "SolvedPart1"
    /\ UNCHANGED <<day, raw, input, work, out2>>

D11_CallNext == D11_Parse \/ D11_CallBegin \/ D11_Call \/ D11_Part1

SpecD11 == D11_CallInit /\ [][D11_CallNext]_vars

\* --- C12 ---

\* the stones that replace stone n at one blink
C12_Image(n) ==
    IF n = 0 THEN <<1>>
    ELSE IF D11_digits(n) % 2 = 0
    THEN LET half == D11_pow10(D11_digits(n) \div 2) IN <<n \div half, n % half>>
    ELSE <<n * 2024>>

RECURSIVE C12_SumOver(_, _, _)
C12_SumOver(stones, f(_), acc) ==
    IF stones = {} THEN acc
    ELSE LET n == CHOOSE x \in stones : TRUE
             a == acc + f(n)
         IN  C12_SumOver(stones \ {n}, f, a)

\* a line of stones as the count of each number on it; one blink replaces every stone
C12_Blink(line) ==
    LET images == UNION {{C12_Image(n)[k] : k \in 1..Len(C12_Image(n))} : n \in DOMAIN line}
        from(m) == LET part(n) == line[n] * Cardinality({k \in 1..Len(C12_Image(n)) :
                                                             C12_Image(n)[k] = m})
                   IN  C12_SumOver(DOMAIN line, part, 0)
    IN  [m \in images |-> from(m)]

RECURSIVE C12_BlinkTimes(_, _)
C12_BlinkTimes(line, k) ==
    IF k = 0 THEN line
    ELSE LET next == C12_Blink(line) IN
         \* every number on the line has a positive count; the test evaluates the counts
         \* of this blink before the next one
         IF \A m \in DOMAIN next : next[m] > 0 THEN C12_BlinkTimes(next, k - 1) ELSE <<>>

\* the number of stones obtained from the single stone n after k blinks
C12_Stones(n, k) ==
    LET line == C12_BlinkTimes([m \in {n} |-> 1], k)
        count(m) == line[m]
    IN  C12_SumOver(DOMAIN line, count, 0)

RECURSIVE C12_Total(_, _, _)
C12_Total(stones, i, k) ==
    IF i > Len(stones) THEN 0 ELSE C12_Stones(stones[i], k) + C12_Total(stones, i + 1, k)

C12_WitnessExample == pc = "SolvedPart1" /\ raw = D11_INPUT /\ out1 = Value(55312)

\* ---------------------------------------------------------------------------
\* Day 05: updates reordered by the page ordering rules
\* ---------------------------------------------------------------------------

\* compare_order with the two answers exchanged (not the code's function)
D05_compare_order_Reversed(a, b, rules) ==
    IF <<a, b>> \notin rules THEN "Less" ELSE "Greater"

\* compare_order(a, b, rules)
D05_compare_order(a, b, rules) ==
    IF <<a, b>> \notin rules THEN "Greater" ELSE "Less"

\* The comparison is a total order on the elements of the slice: of two elements at
\* different places exactly one is Less than the other, and Less is transitive.
D05_total_order(pages, rules) ==
    LET less(i, j) == D05_compare_order(pages[i], pages[j], rules) = "Less"
        I == 1..Len(pages)
    IN  /\ \A i, j \in I : i # j => (less(i, j) <=> ~less(j, i))
        /\ \A i, j, k \in I : less(i, j) /\ less(j, k) => less(i, k)

\* the slice in the order of a total comparison: each element at the place given by
\* the number of other elements that are Less than it
D05_sorted(pages, rules) ==
    LET I == 1..Len(pages)
        rank(i) == Cardinality({j \in I \ {i} :
                        D05_compare_order(pages[j], pages[i], rules) = "Less"})
    IN  [k \in I |-> pages[CHOOSE i \in I : rank(i) = k - 1]]

D05_permutations(pages) ==
    LET I == 1..Len(pages) IN
    {[k \in I |-> pages[f[k]]] : f \in {g \in [I -> I] : \A a, b \in I : a # b => g[a] # g[b]}}

\* pages.sort_unstable_by(|a, b| compare_order(a, b, rules)): the outcomes of the call.
\* The standard library sorts by a total order; for a comparison that is not one, it
\* documents that the call may panic and that the order of the elements is unspecified.
D05_sort_unstable_by(pages, rules) ==
    IF D05_total_order(pages, rules)
    THEN {Value(D05_sorted(pages, rules))}
    ELSE {Panic} \cup {Value(q) : q \in D05_permutations(pages)}

\* pages.get(pages.len() / 2).unwrap()
D05_middle(pages) == pages[Len(pages) \div 2 + 1]

\* Day05::parser on a text given by its numbers: the rules become a set
D05_parser(text) ==
    [rules |-> {text.rules[i] : i \in 1..Len(text.rules)},
     updates |-> [i \in 1..Len(text.updates) |-> [pages |-> text.updates[i]]]]

\* the example of the tests
D05_INPUT ==
    [rules |-> << <<47, 53>>, <<97, 13>>, <<97, 61>>, <<97, 47>>, <<75, 29>>, <<61, 13>>,
                  <<75, 53>>, <<29, 13>>, <<97, 29>>, <<53, 29>>, <<61, 53>>, <<97, 53>>,
                  <<61, 29>>, <<47, 13>>, <<75, 47>>, <<97, 75>>, <<47, 61>>, <<75, 61>>,
                  <<47, 29>>, <<75, 13>>, <<53, 13>> >>,
     updates |-> << <<75, 47, 61, 53, 29>>, <<97, 61, 53, 29, 13>>, <<75, 29, 13>>,
                    <<75, 97, 47, 61, 53>>, <<61, 13, 29>>, <<97, 13, 75, 29, 47>> >>]

D05_Pages == {1, 2, 3}
D05_MaxUpdates == 2

\* rule lists with exactly one rule for every two of the pages, in either direction
D05_RuleLists ==
    {<<a, b, c>> : a \in {<<1, 2>>, <<2, 1>>}, b \in {<<2, 3>>, <<3, 2>>},
                   c \in {<<1, 3>>, <<3, 1>>}}

\* updates of one to three pages, and one update that names a page twice
D05_UpdateLines ==
    {<<1, 1>>} \cup
    UNION {{u \in [1..n -> D05_Pages] : \A i, j \in 1..n : i # j => u[i] # u[j]} : n \in 1..3}

D05_Texts ==
    {D05_INPUT} \cup
    {[rules |-> r, updates |-> u] :
        r \in D05_RuleLists, u \in UNION {[1..n -> D05_UpdateLines] : n \in 1..D05_MaxUpdates}}

D05_Init ==
    /\ day = "day05"
    /\ raw \in D05_Texts
    /\ input = Nothing
    /\ work = Nothing
    /\ pc = "Idle"
    /\ out1 = Nothing
    /\ out2 = Nothing

\* Day05::parser(&mut raw)
D05_Parse ==
    /\ day = "day05" /\ pc = "Idle"
    /\ input' = D05_parser(raw)
    /\ pc' = "Parsed"
    /\ UNCHANGED <<day, raw, work, out1, out2>>

\* Day05::part_2 is entered
D05_Part2Begin ==
    /\ day = "day05" /\ pc = "Parsed"
    /\ pc' = "SolvingPart2"
    /\ work' = [i |-> 1, sum |-> 0, seen |-> <<>>]
    /\ UNCHANGED <<day, raw, input, out1, out2>>

\* the closure of filter_map on the next update; work.seen records, for each update,
\* the pages after the sort and whether its middle page was added
D05_Part2Update ==
    /\ day = "day05" /\ pc = "SolvingPart2" /\ work.i <= Len(input.updates)
    /\ LET u == input.updates[work.i] IN
       \E r \in D05_sort_unstable_by(u.pages, input.rules) :
          IF r = Panic
          THEN /\ pc' = "Aborted"
               /\ out2' = Panic
               /\ work' = work
          ELSE /\ pc' = pc
               /\ out2' = out2
               /\ work' = [i |-> work.i + 1,
                           sum |-> IF r.v # u.pages THEN work.sum + D05_middle(r.v)
                                   ELSE work.sum,
                           seen |-> Append(work.seen, [pages |-> r.v, added |-> r.v # u.pages])]
    /\ UNCHANGED <<day, raw, input, out1>>

\* .sum()
D05_Part2End ==
    /\ day = "day05" /\ pc = "SolvingPart2" /\ work.i > Len(input.updates)
    /\ pc' = "SolvedPart2"
    /\ out2' = Value(work.sum)
    /\ UNCHANGED <<day, raw, input, work, out1>>

D05_Next == D05_Parse \/ D05_Part2Begin \/ D05_Part2Update \/ D05_Part2End

SpecD05 == D05_Init /\ [][D05_Next]_vars

\* --- C13 ---

\* every adjacent pair (p, q) of the pages has the rule p|q
C13_InRuleOrder(pages, rules) ==
    \A k \in 1..(Len(pages) - 1) : <<pages[k], pages[k + 1]>> \in rules

\* the rules hold exactly one ordered pair for every two distinct pages of one update
C13_OnePairEach(puzzle) ==
    \A n \in 1..Len(puzzle.updates) :
        LET pages == puzzle.updates[n].pages IN
        \A i, j \in 1..Len(pages) :
            pages[i] # pages[j] =>
                (<<pages[i], pages[j]>> \in puzzle.rules
                     <=> <<pages[j], pages[i]>> \notin puzzle.rules)

\* no page twice in an update, and the rules are transitive on the pages of an update
C13_StrictOrderEach(puzzle) ==
    \A n \in 1..Len(puzzle.updates) :
        LET pages == puzzle.updates[n].pages IN
        /\ \A i, j \in 1..Len(pages) : i # j => pages[i] # pages[j]
        /\ \A i, j, k \in 1..Len(pages) :
               <<pages[i], pages[j]>> \in puzzle.rules /\ <<pages[j], pages[k]>> \in puzzle.rules
                   => <<pages[i], pages[k]>> \in puzzle.rules

RECURSIVE C13_SumAdded(_, _)
C13_SumAdded(seen, n) ==
    IF n = 0 THEN 0
    ELSE C13_SumAdded(seen, n - 1) + (IF seen[n].added THEN D05_middle(seen[n].pages) ELSE 0)

\* part_2 returns; the updates whose middle page is added are exactly those not in
\* rule order; each middle page is taken from a reordering in rule order; the result
\* is the sum of these middle pages; 123 for the example
C13_Body ==
    /\ pc # "Aborted"
    /\ pc \in {"SolvingPart2", "SolvedPart2"} =>
           \A n \in 1..Len(work.seen) :
               /\ work.seen[n].added <=> ~C13_InRuleOrder(input.updates[n].pages, input.rules)
               /\ C13_InRuleOrder(work.seen[n].pages, input.rules)
    /\ pc = "SolvedPart2" =>
           /\ out2 = Value(C13_SumAdded(work.seen, Len(work.seen)))
           /\ raw = D05_INPUT => out2 = Value(123)

\* The claim as stated: whenever the rules hold exactly one ordered pair for every two
\* distinct pages of the same update.
C13_Original == pc # "Idle" /\ C13_OnePairEach(input) => C13_Body

\* C13: when, in addition, no update names a page twice and the rules are transitive
\* on the pages of each update, part_2 is the sum of the middle pages of exactly the
\* updates not in rule order, each taken after a reordering in which every adjacent
\* pair (p, q) has the rule p|q; 123 for the example.
C13_Part2Reorders ==
    pc # "Idle" /\ C13_OnePairEach(input) /\ C13_StrictOrderEach(input) => C13_Body

\* an update out of order was reordered and counted, one in order was not
C13_Witness ==
    /\ pc = "SolvedPart2" /\ raw # D05_INPUT
    /\ C13_OnePairEach(input) /\ C13_StrictOrderEach(input)
    /\ Len(work.seen) = 2
    /\ work.seen[1].added /\ Len(work.seen[1].pages) = 3
    /\ ~work.seen[2].added /\ Len(work.seen[2].pages) = 3

\* the example: 123
C13_WitnessExample == pc = "SolvedPart2" /\ raw = D05_INPUT /\ out2 = Value(123)

\* rules 1|2, 2|3, 3|1 and the update 2,1,3: the sort panics or leaves any order
C13_Cyclic ==
    /\ pc = "Aborted" /\ C13_OnePairEach(input)
    /\ input.rules = {<<1, 2>>, <<2, 3>>, <<3, 1>>}
    /\ input.updates[1].pages = <<2, 1, 3>>

\* ---------------------------------------------------------------------------
\* Day 01, part 1: distances between the sorted columns
\* ---------------------------------------------------------------------------

\* .sorted_unstable() of itertools: the items of the iterator are collected into a new
\* vector that is sorted; the smallest item is taken out first, then the rest is sorted
RECURSIVE D01_sorted_unstable(_)
D01_sorted_unstable(column) ==
    IF column = <<>> THEN <<>>
    ELSE LET I == 1..Len(column)
             m == CHOOSE i \in I : \A j \in I : column[i] <= column[j]
             rest == [k \in 1..(Len(column) - 1) |-> IF k < m THEN column[k] ELSE column[k + 1]]
         IN  <<column[m]>> \o D01_sorted_unstable(rest)

\* i32::unsigned_abs
D01_unsigned_abs(x) == IF x < 0 THEN -x ELSE x

\* .zip(..).map(|(a, b)| (a - b).unsigned_abs() as usize).sum(): zip ends with the
\* shorter of the two
RECURSIVE D01_sum_distances(_, _, _)
D01_sum_distances(a, b, i) ==
    IF i > Len(a) \/ i > Len(b) THEN 0
    ELSE D01_unsigned_abs(a[i] - b[i]) + D01_sum_distances(a, b, i + 1)

\* the columns are sorted where they are (not the code's part_1)
D01_part_1_InPlace(input_) ==
    LET a == D01_sorted_unstable(input_.a)
        b == D01_sorted_unstable(input_.b)
    IN  [input |-> [a |-> a, b |-> b], out |-> D01_sum_distances(a, b, 1)]

\* Day01::part_1(&input): the columns are borrowed, the sorted vectors are new
D01_part_1(input_) ==
    [input |-> input_,
     out |-> D01_sum_distances(D01_sorted_unstable(input_.a), D01_sorted_unstable(input_.b), 1)]

D01_Numerals == {<<"1">>, <<"4">>, <<"1", "0">>}
D01_MaxLines == 3

\* the text of the lines "a   b"
RECURSIVE D01_MkText(_, _, _)
D01_MkText(a, b, i) ==
    IF i > Len(a) THEN <<>>
    ELSE (IF i > 1 THEN <<"\n">> ELSE <<>>) \o a[i] \o <<" ", " ", " ">> \o b[i]
             \o D01_MkText(a, b, i + 1)

\* the columns (3, 4, 2, 1, 3, 3) and (4, 3, 5, 3, 9, 3)
D01_INPUT ==
    D01_MkText(<< <<"3">>, <<"4">>, <<"2">>, <<"1">>, <<"3">>, <<"3">> >>,
               << <<"4">>, <<"3">>, <<"5">>, <<"3">>, <<"9">>, <<"3">> >>, 1)

D01_Texts ==
    {D01_INPUT} \cup
    UNION {{D01_MkText(a, b, 1) : a, b \in [1..n -> D01_Numerals]} : n \in 1..D01_MaxLines}

D01_Init ==
    /\ day = "day01"
    /\ raw \in D01_Texts
    /\ input = Nothing
    /\ work = Nothing
    /\ pc = "Idle"
    /\ out1 = Nothing
    /\ out2 = Nothing

\* Day01::part_1(&input)
D01_Part1 ==
    /\ day = "day01" /\ pc = "Parsed"
    /\ LET r == D01_part_1(input) IN
        /\ input' = r.input
        /\ out1' = Value(r.out)
    /\ pc' = "SolvedPart1"
    /\ UNCHANGED <<day, raw, work, out2>>

D01_Next == D01_Parse \/ D01_Part1

SpecD01 == D01_Init /\ [][D01_Next]_vars

\* --- C14 ---

\* the i-th smallest value of a column: the value with fewer than i values below it
\* and at least i values not above it
C14_Smallest(column, i) ==
    LET values == {column[k] : k \in 1..Len(column)} IN
    CHOOSE v \in values :
        /\ Cardinality({k \in 1..Len(column) : column[k] < v}) < i
        /\ Cardinality({k \in 1..Len(column) : column[k] <= v}) >= i

RECURSIVE C14_Distance(_, _, _)
C14_Distance(a, b, i) ==
    IF i = 0 THEN 0
    ELSE LET d == C14_Smallest(a, i) - C14_Smallest(b, i) IN
         (IF d < 0 THEN -d ELSE d) + C14_Distance(a, b, i - 1)

\* the columns of the text, read off the text line by line
C14_Column(text, which) ==
    LET breaks == <<0>> \o SelectSeq([k \in 1..Len(text) |-> k], LAMBDA k : text[k] = "\n")
                      \o <<Len(text) + 1>>
        line(n) == SubSeq(text, breaks[n] + 1, breaks[n + 1] - 1)
        left(l) == take_while(l, {String_Digits[d] : d \in 1..Len(String_Digits)})
        right(l) == SubSeq(l, Len(left(l)) + 4, Len(l))
    IN  [n \in 1..(Len(breaks) - 1) |->
            parse_digits(IF which = "a" THEN left(line(n)) ELSE right(line(n)))[1]]

\* C14: part_1 is the sum over i of |a_i - b_i| for the i-th smallest values a_i and
\* b_i of the left and the right column, and the call leaves the parsed columns in
\* the order of the text; 11 for the example columns.
C14_SortedDistance ==
    day = "day01" /\ pc = "SolvedPart1" =>
        /\ input.a = C14_Column(raw, "a")
        /\ input.b = C14_Column(raw, "b")
        /\ out1 = Value(C14_Distance(input.a, input.b, Len(input.a)))
        /\ raw = D01_INPUT => out1 = Value(11)

\* columns that are not sorted in the text, with a pair whose difference is negative
C14_Witness ==
    /\ day = "day01" /\ pc = "SolvedPart1"
    /\ input.a = <<10, 1, 4>> /\ input.b = <<4, 10, 10>>
    /\ out1 = Value(9)

\* the example: 11
C14_WitnessExample ==
    /\ day = "day01" /\ pc = "SolvedPart1" /\ raw = D01_INPUT
    /\ input.a = <<3, 4, 2, 1, 3, 3>> /\ out1 = Value(11)

\* ---------------------------------------------------------------------------
\* Day 07: operators between the operands of an equation
\* ---------------------------------------------------------------------------

\* (0..n).map(|_| operators.iter()).multi_cartesian_product(): the products in the
\* order they are yielded, the last position changing fastest; for n = 0 the one
\* empty product
RECURSIVE D07_multi_cartesian_product(_, _)
D07_multi_cartesian_product(n, operators) ==
    IF n = 0 THEN << <<>> >>
    ELSE LET shorter == D07_multi_cartesian_product(n - 1, operators)
             k == Len(operators)
         IN  [i \in 1..(Len(shorter) * k) |->
                 Append(shorter[((i - 1) \div k) + 1], operators[((i - 1) % k) + 1])]

\* u64::ilog10: panics for 0
RECURSIVE D07_ilog10(_)
D07_ilog10(b) ==
    IF b = 0 THEN Panic
    ELSE IF b < 10 THEN Value(0)
    ELSE Value(1 + D07_ilog10(b \div 10).v)

\* the closure of the fold: |acc, ((a, b), op)|
D07_fold_step(acc, a, b, op) ==
    LET first == IF acc = 0 THEN a ELSE acc IN
    CASE op = "Add" -> Value(first + b)
      [] op = "Mul" -> Value(first * b)
      [] op = "Concat" ->
           IF D07_ilog10(b) = Panic THEN Panic
           ELSE Value(first * D11_pow10(D07_ilog10(b).v + 1) + b)

\* operands.iter().tuple_windows().zip(ops.iter()).fold(0, ..), from window i on
RECURSIVE D07_fold(_, _, _, _)
D07_fold(operands, ops, i, acc) ==
    IF i + 1 > Len(operands) \/ i > Len(ops) THEN Value(acc)
    ELSE LET r == D07_fold_step(acc, operands[i], operands[i + 1], ops[i]) IN
         IF r = Panic THEN Panic ELSE D07_fold(operands, ops, i + 1, r.v)

\* the loop `for ops in ops_comb`
RECURSIVE D07_try_loop(_, _, _, _)
D07_try_loop(result, operands, ops_comb, n) ==
    IF n > Len(ops_comb) THEN Value(FALSE)
    ELSE LET res == D07_fold(operands, ops_comb[n], 1, 0) IN
         IF res = Panic THEN Panic
         ELSE IF res.v = result THEN Value(TRUE)
         ELSE D07_try_loop(result, operands, ops_comb, n + 1)

\* try_operators(result, operands, operators); `operands.len() - 1` overflows for
\* an empty slice
D07_try_operators(result, operands, operators) ==
    IF Len(operands) = 0 THEN Panic
    ELSE D07_try_loop(result, operands,
                      D07_multi_cartesian_product(Len(operands) - 1, operators), 1)

D07_PART1_OPERATORS == <<"Add", "Mul">>
D07_PART2_OPERATORS == <<"Add", "Mul", "Concat">>

\* Day07::parser on a text given by its numbers
D07_parser(text) == text

\* the example of the tests
D07_INPUT ==
    << [result |-> 190, operands |-> <<10, 19>>],
       [result |-> 3267, operands |-> <<81, 40, 27>>],
       [result |-> 83, operands |-> <<17, 5>>],
       [result |-> 156, operands |-> <<15, 6>>],
       [result |-> 7290, operands |-> <<6, 8, 6, 15>>],
       [result |-> 161011, operands |-> <<16, 10, 13>>],
       [result |-> 192, operands |-> <<17, 8, 14>>],
       [result |-> 21037, operands |-> <<9, 7, 18, 13>>],
       [result |-> 292, operands |-> <<11, 6, 16, 20>> ] >>

D07_MaxOperands == 3
D07_MaxResult == 12
D07_Operands == {0, 2, 3}

\* texts of one line, and the example
D07_Texts ==
    {D07_INPUT} \cup
    {<< [result |-> r, operands |-> o] >> :
        r \in 0..D07_MaxResult,
        o \in UNION {[1..n -> D07_Operands] : n \in 1..D07_MaxOperands}}

D07_Init ==
    /\ day = "day07"
    /\ raw \in D07_Texts
    /\ input = Nothing
    /\ work = Nothing
    /\ pc = "Idle"
    /\ out1 = Nothing
    /\ out2 = Nothing

\* Day07::parser(&mut raw)
D07_Parse ==
    /\ day = "day07" /\ pc = "Idle"
    /\ input' = D07_parser(raw)
    /\ pc' = "Parsed"
    /\ UNCHANGED <<day, raw, work, out1, out2>>

\* part_1 or part_2 is entered
D07_PartBegin ==
    /\ day = "day07" /\ pc = "Parsed"
    /\ pc' \in {"SolvingPart1", "SolvingPart2"}
    /\ work' = [i |-> 1, sum |-> 0, verdicts |-> <<>>]
    /\ UNCHANGED <<day, raw, input, out1, out2>>

\* the closure of filter_map on the next line; work.verdicts records what
\* try_operators returned
D07_PartLine ==
    /\ day = "day07" /\ pc \in {"SolvingPart1", "SolvingPart2"} /\ work.i <= Len(input)
    /\ LET l == input[work.i]
           r == D07_try_operators(l.result, l.operands,
                    IF pc = "SolvingPart1" THEN D07_PART1_OPERATORS ELSE D07_PART2_OPERATORS)
       IN  IF r = Panic
           THEN /\ pc' = "Aborted"
                /\ work' = work
           ELSE /\ pc' = pc
                /\ work' = [i |-> work.i + 1,
                            sum |-> IF r.v THEN work.sum + l.result ELSE work.sum,
                            verdicts |-> Append(work.verdicts, r.v)]
    /\ UNCHANGED <<day, raw, input, out1, out2>>

\* .sum()
D07_PartEnd ==
    /\ day = "day07" /\ pc \in {"SolvingPart1", "SolvingPart2"} /\ work.i > Len(input)
    /\ IF pc = "SolvingPart1"
       THEN pc' = "SolvedPart1" /\ out1' = Value(work.sum) /\ out2' = out2
       ELSE pc' = "SolvedPart2" /\ out2' = Value(work.sum) /\ out1' = out1
    /\ UNCHANGED <<day, raw, input, work>>

D07_Next == D07_Parse \/ D07_PartBegin \/ D07_PartLine \/ D07_PartEnd

SpecD07 == D07_Init /\ [][D07_Next]_vars

\* --- C15 ---

RECURSIVE C15_Digits(_)
C15_Digits(n) == IF n < 10 THEN 1 ELSE 1 + C15_Digits(n \div 10)

\* the values of the first k operands under every assignment of operators, evaluated
\* strictly from left to right
RECURSIVE C15_Values(_, _, _)
C15_Values(operands, operators, k) ==
    IF k = 1 THEN {operands[1]}
    ELSE LET b == operands[k] IN
         UNION {{CASE op = "Add" -> v + b
                   [] op = "Mul" -> v * b
                   [] op = "Concat" -> v * D11_pow10(C15_Digits(b)) + b :
                 op \in {operators[i] : i \in 1..Len(operators)}} :
                v \in C15_Values(operands, operators, k - 1)}

C15_Operators == IF pc \in {"SolvingPart1", "SolvedPart1"} THEN D07_PART1_OPERATORS
                 ELSE D07_PART2_OPERATORS

\* C15: try_operators returns, and returns true exactly when some assignment of the
\* operators, evaluated strictly left to right, yields the result, also for a single
\* operand and for operands that are 0; 3749 and 11387 for the example.
C15_SomeAssignment ==
    day = "day07" =>
        /\ pc # "Aborted"
        /\ pc \in {"SolvingPart1", "SolvingPart2", "SolvedPart1", "SolvedPart2"} =>
               \A n \in 1..Len(work.verdicts) :
                   work.verdicts[n] <=>
                       input[n].result \in
                           C15_Values(input[n].operands, C15_Operators, Len(input[n].operands))
        /\ raw = D07_INPUT /\ pc = "SolvedPart1" => out1 = Value(3749)
        /\ raw = D07_INPUT /\ pc = "SolvedPart2" => out2 = Value(11387)

\* "2: 2": a single operand equal to the result is answered with false
C15_SingleOperand ==
    /\ day = "day07" /\ pc = "SolvedPart1"
    /\ input = << [result |-> 2, operands |-> <<2>>] >>
    /\ work.verdicts = <<FALSE>> /\ out1 = Value(0)

\* "3: 0 2 3": 0 * 2 + 3 = 3 is answered with false
C15_ZeroProduct ==
    /\ day = "day07" /\ pc = "SolvedPart1"
    /\ input = << [result |-> 3, operands |-> <<0, 2, 3>>] >>
    /\ work.verdicts = <<FALSE>>

\* "12: 3 0": Concat takes ilog10 of the operand 0
C15_ConcatZero ==
    /\ day = "day07" /\ pc = "Aborted"
    /\ input = << [result |-> 12, operands |-> <<3, 0>>] >>

\* the example: 3749 and 11387
C15_Example ==
    /\ day = "day07" /\ raw = D07_INPUT
    /\ \/ pc = "SolvedPart1" /\ out1 = Value(3749)
       \/ pc = "SolvedPart2" /\ out2 = Value(11387)

\* ---------------------------------------------------------------------------
\* Day 15, part 2: the robot pushes boxes that are two tiles wide
\* ---------------------------------------------------------------------------

\* only the tile in front of the robot is looked at (not the code's check)
D15_can_move_RobotOnly(self, mov) ==
    Value(D15_get_loc(self.grid, D15_with_move(self.robot, mov)) # Some("Wall"))

\* the loop `while let Some(loc) = stack.pop()` of can_move
RECURSIVE D15_can_move_loop(_, _, _, _)
D15_can_move_loop(self, mov, stack, seen) ==
    IF stack = <<>> THEN Value(TRUE)
    ELSE LET loc == stack[Len(stack)]
             rest == SubSeq(stack, 1, Len(stack) - 1)
             tile == D15_get_loc(self.grid, loc)
             next == D15_with_move(loc, mov)
             \* the other half of the box at loc
             half == IF tile = Some("BoxLeft") THEN D15_with_move(loc, "Right")
                     ELSE D15_with_move(loc, "Left")
             push_next == next # half /\ next \notin seen
             seen1 == IF push_next THEN seen \cup {next} ELSE seen
             stack1 == IF push_next THEN Append(rest, next) ELSE rest
             push_half == half \notin seen1
             seen2 == IF push_half THEN seen1 \cup {half} ELSE seen1
             stack2 == IF push_half THEN Append(stack1, half) ELSE stack1
         IN  IF tile = None THEN D15_can_move_loop(self, mov, rest, seen)
             ELSE IF tile = Some("Floor") THEN D15_can_move_loop(self, mov, rest, seen)
             ELSE IF tile = Some("Wall") THEN Value(FALSE)
             ELSE IF tile \in {Some("BoxLeft"), Some("BoxRight")}
             THEN D15_can_move_loop(self, mov, stack2, seen2)
             ELSE Panic

\* Puzzle::can_move
D15_can_move(self, mov) ==
    LET robot_loc == D15_with_move(self.robot, mov) IN
    D15_can_move_loop(self, mov, <<robot_loc>>, {robot_loc})

\* self.grid[neighbor.y][neighbor.x] = Tile::BoxLeft;
\* self.grid[neighbor2.y][neighbor2.x] = Tile::BoxRight;
D15_place_box(grid, neighbor, neighbor2) ==
    D15_set(D15_set(grid, neighbor.x, neighbor.y, "BoxLeft"),
            neighbor2.x, neighbor2.y, "BoxRight")

\* the end of move_box: the tiles that the moved box has left are floor
D15_free_tiles(grid, loc, mov) ==
    LET g1 == IF mov \in {"Up", "Down", "Right"} THEN D15_set(grid, loc.x, loc.y, "Floor")
              ELSE grid
    IN  IF mov \in {"Up", "Down", "Left"} THEN D15_set(g1, loc.x + 1, loc.y, "Floor") ELSE g1

\* Puzzle::move_box on the grid; loc is the left part of the box; the result is the
\* grid after the call, or Panic for an unwrap of a tile outside the grid
RECURSIVE D15_move_box(_, _, _)
D15_move_box(grid, loc, mov) ==
    LET neighbor == D15_with_move(loc, mov)
        neighbor2 == D15_with_move(D15_with_move(loc, "Right"), mov)
        tile == D15_get_loc(grid, neighbor)
        tile2 == D15_get_loc(grid, neighbor2)
        vertical == mov \in {"Up", "Down"}
        left_of == D15_with_move(neighbor, "Left")
        \* the boxes that are moved first, in the order of the calls
        first == IF \/ vertical /\ tile = Some("Floor") /\ tile2 = Some("Floor")
                    \/ mov = "Left" /\ tile = Some("Floor")
                    \/ mov = "Right" /\ tile2 = Some("Floor")
                 THEN Some(<<>>)
                 ELSE IF vertical /\ tile = Some("BoxLeft") THEN Some(<<neighbor>>)
                 ELSE IF \/ mov = "Left" /\ tile = Some("BoxRight")
                         \/ vertical /\ tile = Some("BoxRight") /\ tile2 = Some("Floor")
                 THEN Some(<<left_of>>)
                 ELSE IF \/ mov = "Right" /\ tile2 = Some("BoxLeft")
                         \/ vertical /\ tile = Some("Floor") /\ tile2 = Some("BoxLeft")
                 THEN Some(<<neighbor2>>)
                 ELSE IF vertical /\ tile = Some("BoxRight") /\ tile2 = Some("BoxLeft")
                 THEN Some(<<left_of, neighbor2>>)
                 ELSE None
    IN  IF tile = None \/ tile2 = None THEN Panic
        ELSE IF first = None THEN Value(D15_free_tiles(grid, loc, mov))
        ELSE LET g1 == IF Len(first[1]) >= 1 THEN D15_move_box(grid, first[1][1], mov)
                       ELSE Value(grid)
                 g2 == IF g1 = Panic THEN Panic
                       ELSE IF Len(first[1]) >= 2 THEN D15_move_box(g1.v, first[1][2], mov)
                       ELSE g1
             IN  IF g2 = Panic THEN Panic
                 ELSE Value(D15_free_tiles(D15_place_box(g2.v, neighbor, neighbor2), loc, mov))

\* Puzzle::move_robot_part2; ret is "panic" for a failed unwrap or an unreachable!() arm
D15_move_robot_part2(self, mov) ==
    LET ok == D15_can_move(self, mov)
        neighbor == D15_with_move(self.robot, mov)
        tile == D15_get_loc(self.grid, neighbor)
        box == IF tile = Some("BoxLeft") THEN neighbor ELSE D15_with_move(neighbor, "Left")
    IN  IF ok = Panic THEN [self |-> self, ret |-> "panic"]
        ELSE IF ~ok.v THEN [self |-> self, ret |-> "ok"]
        ELSE IF tile = Some("Floor") THEN [self |-> [self EXCEPT !.robot = neighbor], ret |-> "ok"]
        ELSE IF tile \in {Some("BoxLeft"), Some("BoxRight")}
        THEN LET g == D15_move_box(self.grid, box, mov) IN
             IF g = Panic THEN [self |-> self, ret |-> "panic"]
             ELSE [self |-> [self EXCEPT !.grid = g.v, !.robot = neighbor], ret |-> "ok"]
        ELSE [self |-> self, ret |-> "panic"]

\* Puzzle::expand
D15_expand(self) ==
    [grid |-> [y \in 1..Len(self.grid) |->
                  [x \in 1..(2 * Len(self.grid[y])) |->
                      LET tile == self.grid[y][(x + 1) \div 2] IN
                      IF tile = "BoxLeft" THEN (IF x % 2 = 1 THEN "BoxLeft" ELSE "BoxRight")
                      ELSE IF tile = "Wall" THEN "Wall"
                      ELSE "Floor"]],
     robot |-> [x |-> self.robot.x * 2, y |-> self.robot.y],
     moves |-> self.moves]

\* Grid::gps_score(true)
RECURSIVE D15_gps_sum_part2(_, _, _)
D15_gps_sum_part2(flat, lo, hi) ==
    IF lo > hi THEN 0
    ELSE IF lo = hi
    THEN (IF flat[lo + 1] = "BoxLeft"
          THEN (lo \div (2 * D15_GRID_SIZE)) * 100 + (lo % (2 * D15_GRID_SIZE))
          ELSE 0)
    ELSE LET mid == (lo + hi) \div 2
             a == D15_gps_sum_part2(flat, lo, mid)
         IN  a + D15_gps_sum_part2(flat, mid + 1, hi)

D15_gps_score_part2(grid) ==
    LET flat == D15_flatten(grid) IN D15_gps_sum_part2(flat, 0, Len(flat) - 1)

\* for mov in data.moves.clone() { data.move_robot_part2(mov); }, the moves lo..hi
RECURSIVE D15_move_all_part2(_, _, _, _)
D15_move_all_part2(data, moves, lo, hi) ==
    IF lo > hi THEN [self |-> data, ret |-> "ok"]
    ELSE IF lo = hi THEN D15_move_robot_part2(data, moves[lo])
    ELSE LET mid == (lo + hi) \div 2
             r == D15_move_all_part2(data, moves, lo, mid)
         IN  IF r.ret = "panic" THEN r
             ELSE D15_move_all_part2(r.self, moves, mid + 1, hi)

\* Day15::part_2(&input)
D15_part_2(inp) ==
    LET data == D15_expand(inp)
        r == D15_move_all_part2(data, data.moves, 1, Len(data.moves))
    IN  [input |-> inp,
         out |-> IF r.ret = "panic" THEN Panic ELSE Value(D15_gps_score_part2(r.self.grid))]

\* the example of the tests (the line ends inside the moves are left out)
D15_INPUT ==
    [grid |-> << <<"#", "#", "#", "#", "#", "#", "#", "#", "#", "#">>,
              <<"#", ".", ".", "O", ".", ".", "O", ".", "O", "#">>,
              <<"#", ".", ".", ".", ".", ".", ".", "O", ".", "#">>,
              <<"#", ".", "O", "O", ".", ".", "O", ".", "O", "#">>,
              <<"#", ".", ".", "O", "@", ".", ".", "O", ".", "#">>,
              <<"#", "O", "#", ".", ".", "O", ".", ".", ".", "#">>,
              <<"#", "O", ".", ".", "O", ".", ".", "O", ".", "#">>,
              <<"#", ".", "O", "O", ".", "O", ".", "O", "O", "#">>,
              <<"#", ".", ".", ".", ".", "O", ".", ".", ".", "#">>,
              <<"#", "#", "#", "#", "#", "#", "#", "#", "#", "#">> >>,
     moves |-> <<"<", "v", "v", ">", "^", "<", "v", "^", ">", "v", ">", "^", "v", "v", "^", "v", ">", "v", "<", ">",
                "v", "^", "v", "<", "v", "<", "^", "v", "v", "<", "<", "<", "^", ">", "<", "<", ">", "<", ">", ">",
                "v", "<", "v", "v", "v", "<", ">", "^", "v", "^", ">", "^", "<", "<", "<", ">", "<", "<", "v", "<",
                "<", "<", "v", "^", "v", "v", "^", "v", ">", "^", "v", "v", "v", "<", "<", "^", ">", "^", "v", "^",
                "^", ">", "<", "<", ">", ">", ">", "<", ">", "^", "<", "<", ">", "<", "^", "v", "v", "^", "^", "<",
                ">", "v", "v", "v", "<", ">", ">", "<", "^", "^", "v", ">", "^", ">", "v", "v", "<", ">", "v", "<",
                "<", "<", "<", "v", "<", "^", "v", ">", "^", "<", "^", "^", ">", ">", ">", "^", "<", "v", "<", "v",
                ">", "<", ">", "v", "v", ">", "v", "^", "v", "^", "<", ">", ">", "<", ">", ">", ">", ">", "<", "^",
                "^", ">", "v", "v", ">", "v", "<", "^", "^", "^", ">", ">", "v", "^", "v", "^", "<", "^", "^", ">",
                "v", "^", "^", ">", "v", "^", "<", "^", "v", ">", "v", "<", ">", ">", "v", "^", "v", "^", "<", "v",
                ">", "v", "^", "^", "<", "^", "^", "v", "v", "<", "<", "<", "v", "<", "^", ">", ">", "^", "^", "^",
                "^", ">", ">", ">", "v", "^", "<", ">", "v", "v", "v", "^", ">", "<", "v", "<", "<", "<", ">", "^",
                "^", "^", "v", "v", "^", "<", "v", "v", "v", ">", "^", ">", "v", "<", "^", "^", "^", "^", "v", "<",
                ">", "^", ">", "v", "v", "v", "v", ">", "<", ">", ">", "v", "^", "<", "<", "^", "^", "^", "^", "^",
                "^", ">", "<", "^", ">", "<", ">", ">", ">", "<", ">", "^", "^", "<", "<", "^", "^", "v", ">", ">",
                ">", "<", "^", "<", "v", ">", "^", "<", "v", "v", ">", ">", "v", ">", ">", ">", "^", "v", ">", "<",
                ">", "^", "v", ">", "<", "<", "<", "<", "v", ">", ">", "v", "<", "v", "<", "v", ">", "v", "v", "v",
                ">", "^", "<", ">", "<", "<", ">", "^", ">", "<", "^", ">", ">", "<", ">", "^", "v", "<", ">", "<",
                "^", "v", "v", "v", "<", "^", "^", "<", ">", "<", "v", "<", "<", "<", "<", "<", ">", "<", "^", "v",
                "<", "<", "<", ">", "<", "<", "<", "^", "^", "<", "v", "<", "^", "^", "^", ">", "<", "^", ">", ">",
                "^", "<", "v", "^", ">", "<", "<", "<", "^", ">", ">", "^", "v", "<", "v", "^", "v", "<", "v", "^",
                ">", "^", ">", ">", "^", "v", ">", "v", "v", ">", "^", "<", "<", "^", "v", "<", ">", ">", "<", "<",
                ">", "<", "<", "v", "<", "<", "v", ">", "<", ">", "v", "<", "^", "v", "v", "<", "<", "<", ">", "^",
                "^", "v", "^", ">", "^", "^", ">", ">", ">", "<", "<", "^", "v", ">", ">", "v", "^", "v", ">", "<",
                "^", "^", ">", ">", "^", "<", ">", "v", "v", "^", "<", ">", "<", "^", "^", ">", "^", "^", "^", "<",
                ">", "<", "v", "v", "v", "v", "v", "^", "v", "<", "v", "<", "<", ">", "^", "v", "<", "v", ">", "v",
                "<", "<", "^", ">", "<", "<", ">", "<", "<", ">", "<", "<", "<", "^", "^", "<", "<", "<", "^", "<",
                "<", ">", ">", "<", "<", ">", "<", "^", "^", "^", ">", "^", "^", "<", ">", "^", ">", "v", "<", ">",
                "^", "^", ">", "v", "v", "<", "^", "v", "^", "v", "<", "v", "v", ">", "^", "<", ">", "<", "v", "<",
                "^", "v", ">", "^", "^", "^", ">", ">", ">", "^", "^", "v", "v", "v", "^", ">", "v", "v", "v", "<",
                ">", ">", ">", "^", "<", "^", ">", ">", ">", ">", ">", "^", "<", "<", "^", "v", ">", "^", "v", "v",
                "v", "<", ">", "^", "<", ">", "<", "<", "v", ">", "v", "^", "^", ">", ">", ">", "<", "<", "^", "^",
                "<", ">", ">", "^", "v", "^", "<", "v", "^", "v", "v", "<", ">", "v", "^", "<", "<", ">", "^", "<",
                "^", "v", "^", "v", ">", "<", "^", "<", "<", "<", ">", "<", "<", "^", "<", "v", ">", "<", "v", "<",
                ">", "v", "v", ">", ">", "v", ">", "<", "v", "^", "<", "v", "v", "<", ">", "v", "^", "<", "<", "^">>]

\* a room of three columns and four rows in the corner of the warehouse, the rest walls;
\* the robot starts in the first cell of the room, the boxes as one of the layouts
D15_RoomCells == {<<x, y>> : x \in 1..3, y \in 1..4}
D15_RoomRobot == <<1, 1>>
D15_RoomLayouts == {{<<2, 2>>, <<3, 2>>, <<2, 3>>}, {<<2, 1>>, <<1, 3>>}, {<<3, 4>>}}
D15_Moves == {"Up", "Right", "Down", "Left"}

D15_MkRoom(boxes) ==
    [y \in 1..D15_GRID_SIZE |->
        [x \in 1..D15_GRID_SIZE |->
            IF <<x - 1, y - 1>> \notin D15_RoomCells THEN "#"
            ELSE IF <<x - 1, y - 1>> = D15_RoomRobot THEN "@"
            ELSE IF <<x - 1, y - 1>> \in boxes THEN "O" ELSE "."]]

D15_RoomTexts ==
    {[grid |-> D15_MkRoom(boxes), moves |-> <<"v", ">">>] : boxes \in D15_RoomLayouts}

D15_Part2Init ==
    /\ day = "day15"
    /\ raw \in D15_RoomTexts \cup {D15_INPUT}
    /\ input = Nothing
    /\ work = Nothing
    /\ pc = "Idle"
    /\ out1 = Nothing
    /\ out2 = Nothing

\* Day15::part_2(&input)
D15_Part2 ==
    /\ day = "day15" /\ pc = "Parsed"
    /\ LET r == D15_part_2(input) IN
        /\ input' = r.input
        /\ out2' = r.out
    /\ pc' = "SolvedPart2"
    /\ UNCHANGED <<day, raw, work, out1>>

\* input.clone().expand() of a room, for calls of move_robot_part2 one by one
D15_Expand ==
    /\ day = "day15" /\ pc = "Parsed" /\ raw \in D15_RoomTexts
    /\ pc' = "Moving"
    /\ work' = [data |-> D15_expand(input), mov |-> "None", before |-> D15_expand(input)]
    /\ UNCHANGED <<day, raw, input, out1, out2>>

\* data.move_robot_part2(mov), for any move; work.mov and work.before keep the move of
\* the last call and the puzzle it was called on
D15_MoveRobotPart2 ==
    /\ day = "day15" /\ pc = "Moving"
    /\ \E mov \in D15_Moves :
        LET r == D15_move_robot_part2(work.data, mov) IN
        IF r.ret = "panic"
        THEN /\ pc' = "Aborted"
             /\ work' = [work EXCEPT !.mov = mov, !.before = work.data]
        ELSE /\ pc' = pc
             /\ work' = [data |-> r.self, mov |-> mov, before |-> work.data]
    /\ UNCHANGED <<day, raw, input, out1, out2>>

D15_Part2Next == D15_Parse \/ D15_Part2 \/ D15_Expand \/ D15_MoveRobotPart2

SpecD15Part2 == D15_Part2Init /\ [][D15_Part2Next]_vars

\* --- C16 ---

\* the left parts of the boxes of a grid
C16_Boxes(grid) ==
    {[x |-> x - 1, y |-> y - 1] : <<x, y>> \in
        {c \in (1..(2 * D15_GRID_SIZE)) \X (1..D15_GRID_SIZE) : grid[c[2]][c[1]] = "BoxLeft"}}

\* the two tiles of a box, and of a box moved by one tile
C16_Tiles(box) == {box, [x |-> box.x + 1, y |-> box.y]}
C16_Moved(box, mov) == D15_with_move(box, mov)

\* the boxes pushed, directly or through other boxes, when the tiles `front` are entered
RECURSIVE C16_Pushed(_, _, _)
C16_Pushed(boxes, mov, pushed) ==
    LET more == {b \in boxes \ pushed :
                    \E q \in pushed : C16_Tiles(b) \cap C16_Tiles(C16_Moved(q, mov)) # {}}
    IN  IF more = {} THEN pushed ELSE C16_Pushed(boxes, mov, pushed \cup more)

C16_PushedBy(data, mov) ==
    LET boxes == C16_Boxes(data.grid)
        direct == {b \in boxes : D15_with_move(data.robot, mov) \in C16_Tiles(b)}
    IN  C16_Pushed(boxes, mov, direct)

C16_IsWall(data, loc) == D15_get_loc(data.grid, loc) = Some("Wall")

\* the robot or one of the pushed boxes would enter a wall
C16_Blocked(data, mov) ==
    \/ C16_IsWall(data, D15_with_move(data.robot, mov))
    \/ \E b \in C16_PushedBy(data, mov) :
           \E t \in C16_Tiles(C16_Moved(b, mov)) : C16_IsWall(data, t)

\* the walls of a grid
C16_Walls(grid) ==
    {c \in (1..(2 * D15_GRID_SIZE)) \X (1..D15_GRID_SIZE) : grid[c[2]][c[1]] = "Wall"}

\* every tile is a wall, a floor or a half of a box whose other half is beside it
C16_WellFormed(grid) ==
    \A c \in (1..(2 * D15_GRID_SIZE)) \X (1..D15_GRID_SIZE) :
        LET t == grid[c[2]][c[1]] IN
        /\ t \in {"Wall", "Floor", "BoxLeft", "BoxRight"}
        /\ t = "BoxLeft" => c[1] < 2 * D15_GRID_SIZE /\ grid[c[2]][c[1] + 1] = "BoxRight"
        /\ t = "BoxRight" => c[1] > 1 /\ grid[c[2]][c[1] - 1] = "BoxLeft"

\* the effect of one call on the puzzle `before`
C16_Rule(before, mov, after) ==
    LET pushed == C16_PushedBy(before, mov) IN
    /\ C16_WellFormed(after.grid)
    /\ C16_Walls(after.grid) = C16_Walls(before.grid)
    /\ IF C16_Blocked(before, mov)
       THEN after.robot = before.robot /\ after.grid = before.grid
       ELSE /\ after.robot = D15_with_move(before.robot, mov)
            /\ C16_Boxes(after.grid) =
                   (C16_Boxes(before.grid) \ pushed) \cup {C16_Moved(b, mov) : b \in pushed}

\* C16: a call of move_robot_part2 moves the robot and every box pushed directly or
\* through other boxes by exactly one tile when neither the robot nor one of these
\* boxes would enter a wall, and changes nothing otherwise; part_2 of the example
\* is 9021.
C16_MoveRule ==
    /\ pc # "Aborted"
    /\ raw = D15_INPUT /\ pc = "SolvedPart2" => out2 = Value(9021)
    /\ pc = "Moving" /\ work.mov # "None" => C16_Rule(work.before, work.mov, work.data)

\* a move up has pushed three boxes, two of them through the third
C16_Witness ==
    /\ pc = "Moving" /\ work.mov = "Up"
    /\ ~C16_Blocked(work.before, "Up")
    /\ Cardinality(C16_PushedBy(work.before, "Up")) = 3
    /\ \E b \in C16_PushedBy(work.before, "Up") : b.y = work.before.robot.y - 1
    /\ Cardinality({b \in C16_PushedBy(work.before, "Up") : b.y = work.before.robot.y - 2}) = 2

\* a move is refused because a box pushed through another box would enter a wall
C16_WitnessBlocked ==
    /\ pc = "Moving" /\ work.mov = "Right"
    /\ C16_Blocked(work.before, "Right")
    /\ ~C16_IsWall(work.before, D15_with_move(work.before.robot, "Right"))
    /\ Cardinality(C16_PushedBy(work.before, "Right")) = 2
    /\ work.data = work.before

\* the example: 9021
C16_WitnessExample ==
    /\ pc = "SolvedPart2" /\ raw = D15_INPUT /\ out2 = Value(9021)

(***************************************************************************)
(* Day 17: the three-bit computer (State::next, part_1, find_input)        *)
(***************************************************************************)
D17_USIZE_BITS == 64

\* a ^ b on usize values
RECURSIVE D17_xor(_, _)
D17_xor(a, b) ==
    IF a = 0 THEN b
    ELSE IF b = 0 THEN a
    ELSE (((a % 2) + (b % 2)) % 2) + 2 * D17_xor(a \div 2, b \div 2)

\* the bits of a moved right by v < 64 places; the registers of the model stay below 2^31
D17_shift_right(a, v) == IF v >= 31 THEN 0 ELSE a \div (2 ^ v)

\* a >> v on usize: a shift by 64 or more is an arithmetic overflow, which panics in a
\* build with overflow checks and shifts by v mod 64 in a build without them
D17_shr(a, v, overflow_checks) ==
    IF v >= D17_USIZE_BITS
    THEN IF overflow_checks THEN Panic
         ELSE Value(D17_shift_right(a, v % D17_USIZE_BITS))
    ELSE Value(D17_shift_right(a, v))

D17_with_register(self, a) == [self EXCEPT !.a = a]

D17_get_op_value(self, op) ==
    CASE op.kind = "Lit" -> op.v
      [] op.kind = "RegisterA" -> self.a
      [] op.kind = "RegisterB" -> self.b
      [] op.kind = "RegisterC" -> self.c

\* State::next: the instructions up to the next output. fuel bounds the depth of the
\* recursion of next on itself; a call that needs more never returns.
D17_MaxSteps == 24

RECURSIVE D17_next(_, _, _)
D17_next(self, overflow_checks, fuel) ==
    IF self.pointer >= Len(self.instructions) THEN [self |-> self, ret |-> Value(None)]
    ELSE IF fuel = 0 THEN [self |-> self, ret |-> Hang]
    ELSE
    LET instr == self.instructions[self.pointer + 1]
        advance(s) == D17_next([s EXCEPT !.pointer = @ + 1], overflow_checks, fuel - 1)
        shifted(op) == D17_shr(self.a, D17_get_op_value(self, op), overflow_checks)
    IN  CASE instr.op = "Adv" ->
                IF shifted(instr.arg) = Panic THEN [self |-> self, ret |-> Panic]
                ELSE advance([self EXCEPT !.a = shifted(instr.arg).v])
          [] instr.op = "Bxl" -> advance([self EXCEPT !.b = D17_xor(self.b, instr.arg)])
          [] instr.op = "Bst" ->
                advance([self EXCEPT !.b = D17_get_op_value(self, instr.arg) % 8])
          [] instr.op = "Jnz" ->
                IF self.a > 0
                THEN D17_next([self EXCEPT !.pointer = instr.arg], overflow_checks, fuel - 1)
                ELSE advance(self)
          [] instr.op = "Bxc" -> advance([self EXCEPT !.b = D17_xor(self.b, self.c)])
          [] instr.op = "Out" ->
                [self |-> [self EXCEPT !.pointer = @ + 1],
                 ret |-> Value(Some(D17_get_op_value(self, instr.arg) % 8))]
          [] instr.op = "Bdv" ->
                IF shifted(instr.arg) = Panic THEN [self |-> self, ret |-> Panic]
                ELSE advance([self EXCEPT !.b = shifted(instr.arg).v])
          [] instr.op = "Cdv" ->
                IF shifted(instr.arg) = Panic THEN [self |-> self, ret |-> Panic]
                ELSE advance([self EXCEPT !.c = shifted(instr.arg).v])

\* Itertools::collect_vec on the iterator: the outputs up to the first None. A run
\* of more than D17_MaxOutputs outputs stands for one that never ends.
D17_MaxOutputs == 12

RECURSIVE D17_collect_vec(_, _, _)
D17_collect_vec(self, overflow_checks, acc) ==
    LET r == D17_next(self, overflow_checks, D17_MaxSteps) IN
    IF r.ret \in {Panic, Hang} THEN r.ret
    ELSE IF r.ret.v = None THEN Value(acc)
    ELSE IF Len(acc) >= D17_MaxOutputs THEN Hang
    ELSE D17_collect_vec(r.self, overflow_checks, Append(acc, r.ret.v[1]))

\* u8::to_string of an output
D17_to_string(n) == <<String_Digits[n + 1]>>

RECURSIVE D17_find_input(_, _, _, _)
RECURSIVE D17_find_loop(_, _, _, _, _)

\* find_input returning at the first partial match
D17_find_input_Partial(inp, a, i, overflow_checks) ==
    LET res == D17_collect_vec(D17_with_register(inp, a), overflow_checks, <<>>)
        start == Len(inp.orig) - i
    IN  IF res \in {Panic, Hang} THEN res
        ELSE IF res.v = inp.orig THEN Value(Some(a))
        ELSE IF i = 0 THEN D17_find_loop(inp, a, i, 0, overflow_checks)
        ELSE IF res.v = drop(inp.orig, start) THEN Value(Some(a))
        ELSE Value(None)

\* `for n in 0..=0b111` of find_input
D17_find_loop(inp, a, i, n, overflow_checks) ==
    IF n > 7 THEN Value(None)
    ELSE LET sol == D17_find_input(inp, (a * 8) + n, i + 1, overflow_checks) IN
         IF sol \in {Panic, Hang} THEN sol
         ELSE IF sol.v # None THEN sol
         ELSE D17_find_loop(inp, a, i, n + 1, overflow_checks)

D17_find_input(inp, a, i, overflow_checks) ==
    LET res == D17_collect_vec(D17_with_register(inp, a), overflow_checks, <<>>)
        start == Len(inp.orig) - i
    IN  IF res \in {Panic, Hang} THEN res
        ELSE IF res.v = inp.orig THEN Value(Some(a))
        ELSE IF start < 0 THEN Panic
        ELSE IF res.v = drop(inp.orig, start) \/ i = 0
        THEN D17_find_loop(inp, a, i, 0, overflow_checks)
        ELSE Value(None)

\* find_input(inp, 0, 0).unwrap()
D17_part_2(inp, overflow_checks) ==
    LET sol == D17_find_input(inp, 0, 0, overflow_checks) IN
    IF sol \in {Panic, Hang} THEN sol
    ELSE IF sol.v = None THEN Panic
    ELSE Value(sol.v[1])

\* The programs and registers of the runs: the two examples of the source and short
\* programs over every instruction.
D17_INPUT ==
    [registers |-> << <<"7", "2", "9">>, <<"0">>, <<"0">> >>,
     program |-> << <<"0">>, <<"1">>, <<"5">>, <<"4">>, <<"3">>, <<"0">> >>]

D17_INPUT2 ==
    [registers |-> << <<"2", "0", "2", "4">>, <<"0">>, <<"0">> >>,
     program |-> << <<"0">>, <<"3">>, <<"5">>, <<"4">>, <<"3">>, <<"0">> >>]

D17_Programs ==
    { << <<"0">>, <<"1">>, <<"5">>, <<"4">>, <<"3">>, <<"0">> >>,
      << <<"0">>, <<"3">>, <<"5">>, <<"4">>, <<"3">>, <<"0">> >>,
      << <<"0">>, <<"5">>, <<"5">>, <<"4">> >>,
      << <<"6">>, <<"5">>, <<"5">>, <<"5">> >>,
      << <<"7">>, <<"5">>, <<"5">>, <<"6">> >>,
      << <<"1">>, <<"3">>, <<"5">>, <<"5">>, <<"4">>, <<"0">>, <<"5">>, <<"5">> >>,
      << <<"2">>, <<"4">>, <<"5">>, <<"5">>, <<"2">>, <<"6">>, <<"5">>, <<"5">> >>,
      << <<"6">>, <<"1">>, <<"7">>, <<"2">>, <<"5">>, <<"5">>, <<"5">>, <<"6">> >>,
      << <<"5">>, <<"4">>, <<"0">>, <<"1">>, <<"3">>, <<"0">> >>,
      << <<"3">>, <<"2">>, <<"5">>, <<"1">>, <<"5">>, <<"2">> >>,
      << <<"3">>, <<"0">> >>,
      << <<"5">>, <<"0">>, <<"3">>, <<"0">> >>,
      << <<"5">> >> }

D17_RegisterTexts ==
    {<<a, b, c>> : a \in {<<"0">>, <<"1", "0">>, <<"7", "2", "9">>},
                   b \in {<<"0">>, <<"3">>, <<"6", "4">>},
                   c \in {<<"0">>, <<"5">>}}

D17_Texts ==
    {[registers |-> r, program |-> p] : r \in D17_RegisterTexts, p \in D17_Programs}
        \cup {D17_INPUT, D17_INPUT2}

D17_Init ==
    /\ day = "day17"
    /\ raw \in D17_Texts
    /\ input = Nothing
    /\ work = Nothing
    /\ pc = "Idle"
    /\ out1 = Nothing
    /\ out2 = Nothing

\* part_1 starts: input.clone(); the build has overflow checks or has none
D17_Part1Begin ==
    /\ day = "day17" /\ pc = "Parsed"
    /\ \E overflow_checks \in BOOLEAN :
          work' = [self |-> input, before |-> input, ret |-> Nothing, out |-> <<>>,
                   overflow_checks |-> overflow_checks]
    /\ pc' = "SolvingPart1"
    /\ UNCHANGED <<day, raw, input, out1, out2>>

\* one call of next by the map/join of part_1
D17_Part1Next ==
    /\ day = "day17" /\ pc = "SolvingPart1"
    /\ work.ret # Value(None)
    /\ LET r == D17_next(work.self, work.overflow_checks, D17_MaxSteps) IN
        /\ work' = [work EXCEPT !.before = work.self, !.self = r.self, !.ret = r.ret,
                                !.out = IF r.ret \notin {Panic, Hang} /\ r.ret.v # None
                                        THEN Append(@, D17_to_string(r.ret.v[1]))
                                        ELSE @]
        /\ pc' = IF r.ret = Panic THEN "Aborted"
                 ELSE IF r.ret = Hang \/ Len(work.out) >= D17_MaxOutputs THEN "Hung"
                 ELSE pc
    /\ UNCHANGED <<day, raw, input, out1, out2>>

\* the iterator is exhausted: join(",")
D17_Part1End ==
    /\ day = "day17" /\ pc = "SolvingPart1"
    /\ work.ret = Value(None)
    /\ out1' = Value(join(work.out))
    /\ pc' = "SolvedPart1"
    /\ UNCHANGED <<day, raw, input, work, out2>>

\* part_2 as one step
D17_Part2 ==
    /\ day = "day17" /\ pc = "Parsed"
    /\ \E overflow_checks \in BOOLEAN :
        LET r == D17_part_2(input, overflow_checks) IN
        /\ work' = [overflow_checks |-> overflow_checks]
        /\ IF r = Panic THEN pc' = "Aborted" /\ out2' = out2
           ELSE IF r = Hang THEN pc' = "Hung" /\ out2' = out2
           ELSE pc' = "SolvedPart2" /\ out2' = r
    /\ UNCHANGED <<day, raw, input, out1>>

D17_Next == D17_Parse \/ D17_Part1Begin \/ D17_Part1Next \/ D17_Part1End \/ D17_Part2

SpecD17 == D17_Init /\ [][D17_Next]_vars

(***************************************************************************)
(* C17: every call of next applies the documented effect                   *)
(***************************************************************************)
\* floor(a / 2^v) for registers below 2^31
C17_Div(a, v) == IF v >= 31 THEN 0 ELSE a \div (2 ^ v)

\* the documented effect of one instruction that is not Out
C17_Effect(self, instr) ==
    LET v == IF instr.op \in {"Adv", "Bst", "Bdv", "Cdv"}
             THEN D17_get_op_value(self, instr.arg) ELSE 0
        stepped == [self EXCEPT !.pointer = @ + 1]
    IN  CASE instr.op = "Adv" -> [stepped EXCEPT !.a = C17_Div(self.a, v)]
          [] instr.op = "Bdv" -> [stepped EXCEPT !.b = C17_Div(self.a, v)]
          [] instr.op = "Cdv" -> [stepped EXCEPT !.c = C17_Div(self.a, v)]
          [] instr.op = "Bxl" -> [stepped EXCEPT !.b = D17_xor(self.b, instr.arg)]
          [] instr.op = "Bxc" -> [stepped EXCEPT !.b = D17_xor(self.b, self.c)]
          [] instr.op = "Bst" -> [stepped EXCEPT !.b = v % 8]
          [] instr.op = "Jnz" -> IF self.a # 0 THEN [self EXCEPT !.pointer = instr.arg]
                                 ELSE stepped

\* the documented outcome of one call: the state and the value returned
RECURSIVE C17_Call(_, _)
C17_Call(self, fuel) ==
    IF self.pointer >= Len(self.instructions) THEN [self |-> self, ret |-> Value(None)]
    ELSE IF fuel = 0 THEN [self |-> self, ret |-> Hang]
    ELSE LET instr == self.instructions[self.pointer + 1] IN
         IF instr.op = "Out"
         THEN [self |-> [self EXCEPT !.pointer = @ + 1],
               ret |-> Value(Some(D17_get_op_value(self, instr.arg) % 8))]
         ELSE C17_Call(C17_Effect(self, instr), fuel - 1)

\* the outputs of a whole run by the documented effects, as text joined by commas
RECURSIVE C17_Run(_, _)
C17_Run(self, acc) ==
    LET r == C17_Call(self, D17_MaxSteps) IN
    IF r.ret = Hang \/ Len(acc) > D17_MaxOutputs THEN Hang
    ELSE IF r.ret.v = None THEN Value(join(acc))
    ELSE C17_Run(r.self, Append(acc, <<String_Digits[r.ret.v[1] + 1]>>))

C17_Called == day = "day17" /\ pc \in {"SolvingPart1", "Aborted", "Hung", "SolvedPart1"}
                /\ work # Nothing /\ "ret" \in DOMAIN work /\ work.ret # Nothing

\* C17: every call of State::next leaves the state and returns the value that the
\* documented effects of the instructions give (Adv, Bdv, Cdv store floor(A / 2^v)
\* whatever the size of v), it returns None once the pointer is past the last
\* instruction, and part_1 is the outputs in order joined by commas.
C17_NextApplies ==
    /\ C17_Called =>
          [self |-> work.self, ret |-> work.ret] = C17_Call(work.before, D17_MaxSteps)
    /\ (day = "day17" /\ pc = "SolvedPart1") => out1 = C17_Run(input, <<>>)

\* register B holds 64 and Adv, Bdv or Cdv takes it as its operand
C17_ShiftBy64 ==
    /\ C17_Called /\ work.before.b = 64 /\ work.before.a > 0
    /\ work.before.pointer = 0 /\ Len(work.before.instructions) >= 1
    /\ work.before.instructions[1].op \in {"Adv", "Bdv", "Cdv"}
    /\ work.before.instructions[1].arg = [kind |-> "RegisterB"]

\* without such a shift the calls do apply the documented effects
C17_SmallShifts ==
    (C17_Called /\ input.b < 64) => C17_NextApplies

\* the example: A = 729, program 0,1,5,4,3,0
C17_Example ==
    /\ pc = "SolvedPart1" /\ raw = D17_INPUT
    /\ out1 = Value(<<"4", ",", "6", ",", "3", ",", "5", ",", "6", ",", "3", ",", "5", ",",
                      "2", ",", "1", ",", "0">>)

(***************************************************************************)
(* C18: the value found by find_input makes the program print itself       *)
(***************************************************************************)
\* the outputs of the program as parsed, run with register A = a
C18_Outputs(a) == D17_collect_vec(D17_with_register(input, a), work.overflow_checks, <<>>)

\* C18: find_input(input, 0, 0) returns Some(a) only for a value a such that the
\* program run with register A = a (B, C and the program as parsed) outputs exactly
\* its own bytes `orig`; part_2 returns that a, and it is 117440 for 0,3,5,4,3,0.
C18_FindsQuine ==
    (day = "day17" /\ pc = "SolvedPart2") =>
        /\ D17_find_input(input, 0, 0, work.overflow_checks) = Value(Some(out2.v))
        /\ C18_Outputs(out2.v) = Value(input.orig)
        /\ input.orig = <<0, 3, 5, 4, 3, 0>> => out2 = Value(117440)

\* the example of the source
C18_Witness ==
    /\ pc = "SolvedPart2" /\ raw = D17_INPUT2 /\ out2 = Value(117440)

(***************************************************************************)
(* Day 08: antennas and antinodes                                          *)
(***************************************************************************)
\* GRID_SIZE of the test build
D08_GRID_SIZE == 12
D08_I8_MAX == 127

D08_abs(n) == IF n < 0 THEN 0 - n ELSE n
D08_min(a, b) == IF a <= b THEN a ELSE b

\* GRID_SIZE / n on i8: a division by zero panics in every build
D08_div(n) == IF n = 0 THEN Panic ELSE Value(D08_GRID_SIZE \div n)

\* (GRID_SIZE / dx.abs()).min(GRID_SIZE / dy.abs())
D08_limit(dx, dy) ==
    IF D08_div(D08_abs(dx)) = Panic \/ D08_div(D08_abs(dy)) = Panic THEN Panic
    ELSE Value(D08_min(D08_div(D08_abs(dx)).v, D08_div(D08_abs(dy)).v))

\* the closure of flat_map on the pair (a, b): the positions pushed to res
D08_pair(a, b, part1) ==
    LET dx == a.x - b.x
        dy == a.y - b.y
        bounds == IF part1 THEN Value(<<1, 2>>)
                  ELSE IF D08_limit(dx, dy) = Panic THEN Panic
                  ELSE Value(<<0, D08_limit(dx, dy).v>>)
    IN  IF bounds = Panic THEN Panic
        ELSE Value(UNION {{<<a.x + (i * dx), a.y + (i * dy)>>,
                           <<b.x - (i * dx), b.y - (i * dy)>>} :
                              i \in bounds.v[1]..(bounds.v[2] - 1)})

\* list.iter().tuple_combinations(): the pairs in the order of the list
D08_tuple_combinations(list) ==
    UNION {{<<list[i], list[j]>> : j \in (i + 1)..Len(list)} : i \in 1..Len(list)}

D08_in_grid(pos) ==
    pos[1] \in 0..(D08_GRID_SIZE - 1) /\ pos[2] \in 0..(D08_GRID_SIZE - 1)

\* get_antinodes: the set of the positions kept by the filter, or a panic
D08_get_antinodes(antennae, part1) ==
    LET pairs == UNION {D08_tuple_combinations(antennae[f]) : f \in DOMAIN antennae} IN
    IF \E pr \in pairs : D08_pair(pr[1], pr[2], part1) = Panic THEN Panic
    ELSE Value({pos \in UNION {D08_pair(pr[1], pr[2], part1).v : pr \in pairs} :
                    D08_in_grid(pos)})

\* parse_row: the cells of a row that are not '.', with their x coordinate
D08_parse_row(row) ==
    IF row = <<>> THEN ParseErr
    ELSE ParseOk(SelectSeq([x \in 1..Len(row) |-> <<x - 1, row[x]>>],
                           LAMBDA cell : cell[2] # "."), <<>>)

\* the two loops of the parser over the rows and their cells
RECURSIVE D08_insert_row(_, _, _, _)
D08_insert_row(out, row, y, i) ==
    IF i > Len(row) THEN Value(out)
    ELSE IF row[i][1] > D08_I8_MAX \/ y > D08_I8_MAX THEN Panic
    ELSE LET antenna == [x |-> row[i][1], y |-> y]
             symbol == row[i][2]
         IN  D08_insert_row(IF symbol \in DOMAIN out
                            THEN [out EXCEPT ![symbol] = Append(@, antenna)]
                            ELSE MapPut(out, symbol, <<antenna>>), row, y, i + 1)

RECURSIVE D08_insert_rows(_, _, _)
D08_insert_rows(out, rows, y) ==
    IF y >= Len(rows) THEN Value(out)
    ELSE LET r == D08_insert_row(out, rows[y + 1], y, 1) IN
         IF r = Panic THEN Panic ELSE D08_insert_rows(r.v, rows, y + 1)

\* Day08::parser on a text given as its lines: separated(1.., parse_row, line_ending)
\* takes the lines before the first empty one
D08_parser(text) ==
    LET n == IF \E i \in 1..Len(text) : text[i] = <<>>
             THEN (CHOOSE i \in 1..Len(text) :
                        text[i] = <<>> /\ \A j \in 1..(i - 1) : text[j] # <<>>) - 1
             ELSE Len(text)
        rows == [y \in 1..n |-> D08_parse_row(text[y]).v]
    IN  IF n = 0 THEN ParseErr
        ELSE IF D08_insert_rows(EmptyMap, rows, 0) = Panic THEN Panic
        ELSE ParseOk(D08_insert_rows(EmptyMap, rows, 0).v, drop(text, n))

D08_part_2(inp) ==
    IF D08_get_antinodes(inp, FALSE) = Panic THEN Panic
    ELSE Value(Cardinality(D08_get_antinodes(inp, FALSE).v))

D08_INPUT ==
    << <<".", ".", ".", ".", ".", ".", ".", ".", ".", ".", ".", ".">>,
       <<".", ".", ".", ".", ".", ".", ".", ".", "0", ".", ".", ".">>,
       <<".", ".", ".", ".", ".", "0", ".", ".", ".", ".", ".", ".">>,
       <<".", ".", ".", ".", ".", ".", ".", "0", ".", ".", ".", ".">>,
       <<".", ".", ".", ".", "0", ".", ".", ".", ".", ".", ".", ".">>,
       <<".", ".", ".", ".", ".", ".", "A", ".", ".", ".", ".", ".">>,
       <<".", ".", ".", ".", ".", ".", ".", ".", ".", ".", ".", ".">>,
       <<".", ".", ".", ".", ".", ".", ".", ".", ".", ".", ".", ".">>,
       <<".", ".", ".", ".", ".", ".", ".", ".", "A", ".", ".", ".">>,
       <<".", ".", ".", ".", ".", ".", ".", ".", ".", "A", ".", ".">>,
       <<".", ".", ".", ".", ".", ".", ".", ".", ".", ".", ".", ".">>,
       <<".", ".", ".", ".", ".", ".", ".", ".", ".", ".", ".", ".">> >>

\* The texts: the example, and grids of GRID_SIZE rows and columns where each cell of
\* D08_Cells is empty or holds an antenna of one of two frequencies.
D08_Cells == {<<4, 4>>, <<6, 4>>, <<4, 7>>, <<5, 6>>, <<8, 8>>, <<1, 10>>}

D08_MkText(placed) ==
    [y \in 1..D08_GRID_SIZE |->
        [x \in 1..D08_GRID_SIZE |->
            IF <<x - 1, y - 1>> \in D08_Cells THEN placed[<<x - 1, y - 1>>] ELSE "."]]

D08_Texts ==
    {D08_MkText(placed) : placed \in [D08_Cells -> {".", "A", "0"}]} \cup {D08_INPUT}

D08_Init ==
    /\ day = "day08"
    /\ raw \in D08_Texts
    /\ input = Nothing
    /\ work = Nothing
    /\ pc = "Idle"
    /\ out1 = Nothing
    /\ out2 = Nothing

\* Day08::parser(&mut raw)
D08_Parse ==
    /\ day = "day08" /\ pc = "Idle"
    /\ LET r == D08_parser(raw) IN
        IF r = Panic THEN pc' = "Aborted" /\ input' = input
        ELSE IF r.ok THEN pc' = "Parsed" /\ input' = r.v
        ELSE pc' = "ParseError" /\ input' = input
    /\ UNCHANGED <<day, raw, work, out1, out2>>

\* Day08::part_2(&input)
D08_Part2 ==
    /\ day = "day08" /\ pc = "Parsed"
    /\ LET r == D08_part_2(input) IN
        IF r = Panic THEN pc' = "Aborted" /\ out2' = out2
        ELSE pc' = "SolvedPart2" /\ out2' = r
    /\ UNCHANGED <<day, raw, input, work, out1>>

D08_Next == D08_Parse \/ D08_Part2

SpecD08 == D08_Init /\ [][D08_Next]_vars

(***************************************************************************)
(* C19: the antinodes of part 2                                            *)
(***************************************************************************)
C19_Grid == (0..(D08_GRID_SIZE - 1)) \X (0..(D08_GRID_SIZE - 1))

\* the pairs of distinct antennas of the same frequency
C19_Pairs(antennae) ==
    UNION {{<<list[i], list[j]>> : i \in 1..Len(list), j \in 1..Len(list)} \
           {<<list[i], list[i]>> : i \in 1..Len(list)} :
                list \in {antennae[f] : f \in DOMAIN antennae}}

\* the in-grid positions a + k * (a - b), k an integer
C19_Antinodes(antennae) ==
    {pos \in C19_Grid :
        \E pr \in C19_Pairs(antennae) :
            \E k \in (0 - D08_GRID_SIZE)..D08_GRID_SIZE :
                /\ pos[1] = pr[1].x + (k * (pr[1].x - pr[2].x))
                /\ pos[2] = pr[1].y + (k * (pr[1].y - pr[2].y))}

C19_SharesLine(antennae) ==
    \E pr \in C19_Pairs(antennae) : pr[1].x = pr[2].x \/ pr[1].y = pr[2].y

C19_Called == day = "day08" /\ pc \in {"Parsed", "SolvedPart2", "Aborted"}

\* C19: get_antinodes(antennae, false) is exactly the set of the in-grid positions
\* a + k * (a - b) for an integer k and a pair a, b of distinct antennas of the same
\* frequency, for every pair, also a pair that shares a row or a column; part_2 is
\* the size of that set.
C19_AllPairs ==
    C19_Called =>
        /\ D08_get_antinodes(input, FALSE) = Value(C19_Antinodes(input))
        /\ pc # "Aborted"
        /\ pc = "SolvedPart2" => out2 = Value(Cardinality(C19_Antinodes(input)))

\* the same for the grids where no pair shares a row or a column
C19_ObliquePairs ==
    (C19_Called /\ ~C19_SharesLine(input)) => C19_AllPairs

\* two antennas of one frequency in the same row: part_2 aborts
C19_SameRow ==
    /\ day = "day08" /\ pc = "Aborted"
    /\ DOMAIN input = {"A"} /\ input["A"] = <<[x |-> 4, y |-> 4], [x |-> 6, y |-> 4]>>

\* the example: 34
C19_Example ==
    /\ pc = "SolvedPart2" /\ raw = D08_INPUT /\ out2 = Value(34)

(***************************************************************************)
(* Day 10: hiking trails                                                   *)
(***************************************************************************)
D10_GRID_SIZE == 48

\* Top - Right - Bottom - Left
D10_DIRS == << <<0, -1>>, <<1, 0>>, <<0, 1>>, <<-1, 0>> >>

\* map.get(y as usize).and_then(|row| row.get(x as usize)); a negative i8 cast to
\* usize is past every index
D10_get(map, x, y) ==
    IF y >= 0 /\ y < Len(map) /\ x >= 0 /\ x < Len(map[y + 1])
    THEN Some(map[y + 1][x + 1]) ELSE None

\* Point::elevation: map[y][x], which panics outside the map
D10_elevation(self, map) ==
    IF D10_get(map, self.x, self.y) = None THEN Panic
    ELSE Value(D10_get(map, self.x, self.y)[1])

\* Point::neighbors
D10_neighbors(self, map) ==
    IF D10_elevation(self, map) = Panic THEN Panic
    ELSE Value(SelectSeq([d \in 1..4 |-> [x |-> self.x + D10_DIRS[d][1],
                                         y |-> self.y + D10_DIRS[d][2]]],
                         LAMBDA q : D10_get(map, q.x, q.y) =
                                        Some(D10_elevation(self, map).v + 1)))

\* to_visit.extend(candidate.neighbors(map)) for the candidates lo..hi of the queue, in
\* the order of the queue
RECURSIVE D10_extend(_, _, _, _)
D10_extend(candidates, map, lo, hi) ==
    IF lo > hi THEN <<>>
    ELSE IF lo = hi THEN D10_neighbors(candidates[lo], map).v
    ELSE LET mid == (lo + hi) \div 2 IN
         D10_extend(candidates, map, lo, mid) \o D10_extend(candidates, map, mid + 1, hi)

\* The `while let Some(candidate) = to_visit.pop_front()` loop of dfs_reach. The queue
\* is first in, first out, and the neighbours pushed for a candidate are one higher
\* than it: the candidates in the queue at one time are followed by all their
\* neighbours, and one step of this recursion pops all of them.
RECURSIVE D10_dfs_loop(_, _, _)
D10_dfs_loop(to_visit, trails, map) ==
    IF to_visit = <<>> THEN Value(trails)
    ELSE IF \E i \in 1..Len(to_visit) : D10_elevation(to_visit[i], map) = Panic THEN Panic
    ELSE LET goals == SelectSeq(to_visit, LAMBDA c : D10_elevation(c, map).v = 9)
             others == SelectSeq(to_visit, LAMBDA c : D10_elevation(c, map).v # 9)
             pushed == D10_extend(others, map, 1, Len(others))
         IN  IF Len(pushed) + Len(goals) >= 0
             THEN D10_dfs_loop(pushed, trails \o goals, map)
             ELSE Panic

\* dfs_reach
D10_dfs_reach(start, map) ==
    IF D10_neighbors(start, map) = Panic THEN Panic
    ELSE D10_dfs_loop(D10_neighbors(start, map).v, <<>>, map)

\* part_2: the sum over the trail heads of the number of trails
RECURSIVE D10_part_2_sum(_, _, _)
D10_part_2_sum(inp, i, acc) ==
    IF i > Len(inp.trail_heads) THEN Value(acc)
    ELSE LET r == D10_dfs_reach(inp.trail_heads[i], inp.map) IN
         IF r = Panic THEN Panic
         ELSE IF acc + Len(r.v) >= 0 THEN D10_part_2_sum(inp, i + 1, acc + Len(r.v))
         ELSE Panic

D10_part_2(inp) == D10_part_2_sum(inp, 1, 0)

\* parse_row: repeat(1.., one_of('0'..='9')) with to_digit
D10_parse_row(row) ==
    LET digits == take_while(row, {String_Digits[d] : d \in 1..Len(String_Digits)}) IN
    IF digits = <<>> THEN ParseErr
    ELSE ParseOk([x \in 1..Len(digits) |-> D09_to_digit(digits[x])[1]],
                 drop(row, Len(digits)))

\* separated(1.., parse_row, line_ending) on the lines of the text: the rows up to
\* the first line that is not made of digits only, with the digits that line begins with
RECURSIVE D10_rows(_, _)
D10_rows(text, y) ==
    IF y > Len(text) \/ ~D10_parse_row(text[y]).ok THEN <<>>
    ELSE IF D10_parse_row(text[y]).rest # <<>> THEN <<D10_parse_row(text[y]).v>>
    ELSE <<D10_parse_row(text[y]).v>> \o D10_rows(text, y + 1)

\* elevations.iter().flatten()
RECURSIVE D10_flatten(_)
D10_flatten(rows) == IF rows = <<>> THEN <<>> ELSE Head(rows) \o D10_flatten(Tail(rows))

\* Day10::parser: a trail head for each position idx of a 0 in the flattened rows, at
\* x = idx % GRID_SIZE and y = idx / GRID_SIZE
D10_parser(text) ==
    LET elevations == D10_rows(text, 1)
        flat == D10_flatten(elevations)
        positions == SelectSeq([i \in 1..Len(flat) |-> i - 1], LAMBDA idx : flat[idx + 1] = 0)
    IN  IF elevations = <<>> THEN ParseErr
        ELSE ParseOk([map |-> elevations,
                      trail_heads |-> [t \in 1..Len(positions) |->
                                          [x |-> positions[t] % D10_GRID_SIZE,
                                           y |-> positions[t] \div D10_GRID_SIZE]]],
                     drop(text, Len(elevations)))

D10_INPUT ==
    << <<"8", "9", "0", "1", "0", "1", "2", "3">>,
       <<"7", "8", "1", "2", "1", "8", "7", "4">>,
       <<"8", "7", "4", "3", "0", "9", "6", "5">>,
       <<"9", "6", "5", "4", "9", "8", "7", "4">>,
       <<"4", "5", "6", "7", "8", "9", "0", "3">>,
       <<"3", "2", "0", "1", "9", "0", "1", "2">>,
       <<"0", "1", "3", "2", "9", "8", "0", "1">>,
       <<"1", "0", "4", "5", "6", "7", "3", "2">> >>

\* The texts: the example, every map of up to D10_MaxSide rows and columns over the
\* digits of D10_Digits, and maps with rows of GRID_SIZE cells that count 0 1 2 .. 9
\* from left to right, each row one ahead of the row above it.
D10_MaxSide == 2
D10_Digits == {"0", "1", "9"}

D10_WideRow(shift) ==
    [x \in 1..D10_GRID_SIZE |-> String_Digits[((x - 1 + shift) % 10) + 1]]

D10_WideTexts ==
    { <<D10_WideRow(0)>>,
      <<D10_WideRow(0), D10_WideRow(1)>>,
      <<D10_WideRow(4), D10_WideRow(5)>>,
      <<D10_WideRow(7), D10_WideRow(7)>> }

D10_Texts ==
    UNION {[1..h -> [1..w -> D10_Digits]] : h \in 1..D10_MaxSide, w \in 1..D10_MaxSide}
        \cup D10_WideTexts \cup {D10_INPUT}

D10_Init ==
    /\ day = "day10"
    /\ raw \in D10_Texts
    /\ input = Nothing
    /\ work = Nothing
    /\ pc = "Idle"
    /\ out1 = Nothing
    /\ out2 = Nothing

\* Day10::parser(&mut raw)
D10_Parse ==
    /\ day = "day10" /\ pc = "Idle"
    /\ LET r == D10_parser(raw) IN
        IF r.ok THEN pc' = "Parsed" /\ input' = r.v
        ELSE pc' = "ParseError" /\ input' = input
    /\ UNCHANGED <<day, raw, work, out1, out2>>

\* Day10::part_2(&input)
D10_Part2 ==
    /\ day = "day10" /\ pc = "Parsed"
    /\ LET r == D10_part_2(input) IN
        IF r = Panic THEN pc' = "Aborted" /\ out2' = out2
        ELSE pc' = "SolvedPart2" /\ out2' = r
    /\ UNCHANGED <<day, raw, input, work, out1>>

D10_Next == D10_Parse \/ D10_Part2

SpecD10 == D10_Init /\ [][D10_Next]_vars

(***************************************************************************)
(* C20: trail heads and the number of trails                               *)
(***************************************************************************)
\* the cells of the map, as (x, y)
C20_Cells(map) == {<<x, y>> : x \in 0..(Len(map[1]) - 1), y \in 0..(Len(map) - 1)}

C20_Elevation(map, c) == map[c[2] + 1][c[1] + 1]

C20_Adjacent(c, d) ==
    \/ c[1] = d[1] /\ (c[2] - d[2]) \in {-1, 1}
    \/ c[2] = d[2] /\ (c[1] - d[1]) \in {-1, 1}

RECURSIVE C20_SumOver(_, _)
C20_SumOver(cells, count) ==
    IF cells = {} THEN 0
    ELSE LET c == CHOOSE c \in cells : TRUE IN count[c] + C20_SumOver(cells \ {c}, count)

\* the number of paths from each cell of elevation e that rise by 1 at each step and
\* end on a 9, from the numbers for elevation e + 1
RECURSIVE C20_PathsFrom(_, _, _)
C20_PathsFrom(map, e, above) ==
    LET count == [c \in C20_Cells(map) |->
                    IF C20_Elevation(map, c) # e THEN 0
                    ELSE IF e = 9 THEN 1
                    ELSE C20_SumOver({d \in C20_Cells(map) : C20_Adjacent(c, d)}, above)]
    IN  IF e = 0 /\ (\A c \in C20_Cells(map) : count[c] >= 0) THEN count
        ELSE C20_PathsFrom(map, e - 1, count)

C20_Zeros(map) == {c \in C20_Cells(map) : C20_Elevation(map, c) = 0}

C20_Total(map) ==
    C20_SumOver(C20_Zeros(map), C20_PathsFrom(map, 9, [c \in C20_Cells(map) |-> 0]))

C20_Called == day = "day10" /\ pc \in {"Parsed", "SolvedPart2", "Aborted"}

C20_Rectangular(map) == \A y \in 1..Len(map) : Len(map[y]) = Len(map[1])

\* C20: for every rectangular map the trail heads of the parser are exactly the
\* (x, y) of the cells of elevation 0, and part_2 returns the number of distinct paths
\* from a trail head that rise by exactly 1 at each orthogonal step and end on a 9.
C20_CountsTrails ==
    (C20_Called /\ C20_Rectangular(input.map)) =>
        /\ {<<input.trail_heads[t].x, input.trail_heads[t].y>> :
                t \in 1..Len(input.trail_heads)} = C20_Zeros(input.map)
        /\ Len(input.trail_heads) = Cardinality(C20_Zeros(input.map))
        /\ pc \in {"Parsed", "SolvedPart2"}
        /\ pc = "SolvedPart2" => out2 = Value(C20_Total(input.map))

\* the same for the maps of one row and for the maps with rows of GRID_SIZE cells
C20_OneRowOrGridSize ==
    (C20_Called /\ (Len(input.map) = 1 \/ Len(input.map[1]) = D10_GRID_SIZE))
        => C20_CountsTrails

\* a map of 48 columns and two rows with more than one trail from a trail head
C20_WideWitness ==
    /\ day = "day10" /\ pc = "SolvedPart2" /\ Len(input.map) = 2
    /\ Len(input.map[1]) = D10_GRID_SIZE /\ out2.v > Len(input.trail_heads)

\* the example of 8 columns and 8 rows: the 0 of the third row is recorded at
\* x = 20, y = 0 and part_2 aborts
C20_ExampleAborts ==
    /\ day = "day10" /\ raw = D10_INPUT /\ pc = "Aborted"
    /\ [x |-> 20, y |-> 0] \in {input.trail_heads[t] : t \in 1..Len(input.trail_heads)}

\* the number of trails of the example by the stated rule: 81
C20_ExampleTotal ==
    (day = "day10" /\ raw = D10_INPUT /\ pc = "Parsed") => C20_Total(input.map) = 81

(***************************************************************************)
(* C21: the cost returned by Claw::tokens                                  *)
(***************************************************************************)
\* the four machines of the example of the source
D13_INPUT ==
    << [a |-> << <<"9", "4">>, <<"3", "4">> >>, b |-> << <<"2", "2">>, <<"6", "7">> >>,
        prize |-> << <<"8", "4", "0", "0">>, <<"5", "4", "0", "0">> >>],
       [a |-> << <<"2", "6">>, <<"6", "6">> >>, b |-> << <<"6", "7">>, <<"2", "1">> >>,
        prize |-> << <<"1", "2", "7", "4", "8">>, <<"1", "2", "1", "7", "6">> >>],
       [a |-> << <<"1", "7">>, <<"8", "6">> >>, b |-> << <<"8", "4">>, <<"3", "7">> >>,
        prize |-> << <<"7", "8", "7", "0">>, <<"6", "4", "5", "0">> >>],
       [a |-> << <<"6", "9">>, <<"2", "3">> >>, b |-> << <<"2", "7">>, <<"7", "1">> >>,
        prize |-> << <<"1", "8", "6", "4", "1">>, <<"1", "0", "2", "7", "9">> >>] >>

D13_ClawInit ==
    /\ day = "day13"
    /\ raw \in D13_Texts \cup {D13_INPUT}
    /\ input = Nothing
    /\ work = Nothing
    /\ pc = "Idle"
    /\ out1 = Nothing
    /\ out2 = Nothing

D13_Next == D13_Parse \/ D13_Part1

SpecD13 == D13_ClawInit /\ [][D13_Next]_vars

C21_Max(a, b) == IF a >= b THEN a ELSE b

\* the numbers of presses of B that can go with a presses of A: the button B moves
\* the claw in a coordinate, which fixes b, or it does not move it and 0 is the cheapest
C21_BPresses(m, a) ==
    (IF m.b.x > 0 /\ m.prize.x >= a * m.a.x THEN {(m.prize.x - (a * m.a.x)) \div m.b.x} ELSE {})
    \cup (IF m.b.y > 0 /\ m.prize.y >= a * m.a.y
          THEN {(m.prize.y - (a * m.a.y)) \div m.b.y} ELSE {})
    \cup (IF m.b.x = 0 /\ m.b.y = 0 THEN {0} ELSE {})

\* the pairs of non-negative integers a, b with a * A + b * B = prize; of the pairs
\* that differ only by presses of a button that does not move the claw, the one with
\* the fewest presses
C21_Solutions(m) ==
    {pr \in UNION {{<<a, b>> : b \in C21_BPresses(m, a)} :
                        a \in 0..(IF m.a.x = 0 /\ m.a.y = 0 THEN 0
                                  ELSE C21_Max(m.prize.x, m.prize.y))} :
        /\ (pr[1] * m.a.x) + (pr[2] * m.b.x) = m.prize.x
        /\ (pr[1] * m.a.y) + (pr[2] * m.b.y) = m.prize.y}

\* Some(the minimum of 3 * a + b over the solutions), None when there is none
C21_Cheapest(m) ==
    IF C21_Solutions(m) = {} THEN None
    ELSE Some(CHOOSE c \in {(3 * pr[1]) + pr[2] : pr \in C21_Solutions(m)} :
                \A pr \in C21_Solutions(m) : c <= (3 * pr[1]) + pr[2])

RECURSIVE C21_SumCheapest(_, _)
C21_SumCheapest(inp, i) ==
    IF i > Len(inp) THEN 0
    ELSE D13_unwrap_or_default(C21_Cheapest(inp[i])) + C21_SumCheapest(inp, i + 1)

C21_Called == day = "day13" /\ pc \in {"Parsed", "SolvedPart1", "Aborted"}

\* C21: for every machine the parser accepts, Claw::tokens returns Some(3 * a + b) for
\* the cheapest pair of non-negative integers a, b with a * A + b * B = prize and None
\* when there is no such pair; part_1 is the sum of these costs.
C21_TokensCheapest ==
    C21_Called =>
        /\ \A i \in 1..Len(input) : D13_tokens(input[i]) = Value(C21_Cheapest(input[i]))
        /\ pc # "Aborted"
        /\ pc = "SolvedPart1" => out1 = Value(C21_SumCheapest(input, 1))

\* the machines whose buttons are not parallel, with A moving the claw along x, and
\* whose prize cannot be won without pressing both buttons
C21_BothPressed(m) ==
    /\ (m.a.y * m.b.x) - (m.b.y * m.a.x) # 0
    /\ m.a.x # 0
    /\ \A pr \in C21_Solutions(m) : pr[1] > 0 /\ pr[2] > 0

\* for those machines tokens is the cheapest cost
C21_WhenBothPressed ==
    C21_Called =>
        \A i \in 1..Len(input) :
            C21_BothPressed(input[i]) => D13_tokens(input[i]) = Value(C21_Cheapest(input[i]))

\* A = (1, 1), B = (2, 0), prize = (4, 0): two presses of B win, tokens returns None
C21_ZeroPresses ==
    /\ day = "day13" /\ pc = "SolvedPart1" /\ Len(input) = 1
    /\ input[1] = [a |-> [x |-> 1, y |-> 1], b |-> [x |-> 2, y |-> 0],
                   prize |-> [x |-> 4, y |-> 0]]
    /\ C21_Cheapest(input[1]) = Some(2)
    /\ out1 = Value(0)

\* the example: 480
C21_Example ==
    /\ day = "day13" /\ pc = "SolvedPart1" /\ raw = D13_INPUT
    /\ out1 = Value(480) /\ C21_SumCheapest(input, 1) = 480

(***************************************************************************)
(* Day 12: garden regions                                                  *)
(***************************************************************************)
\* GRID_SIZE of the test build
D12_GRID_SIZE == 4

\* up - right - down - left
D12_DIRS == << <<0, -1>>, <<1, 0>>, <<0, 1>>, <<-1, 0>> >>
\* top-right - bottom-right - bottom-left - top-left
D12_DIAGONALS == << <<1, -1>>, <<1, 1>>, <<-1, 1>>, <<-1, -1>> >>

\* Point::crop: None outside the map (a negative isize cast to usize is past every index)
D12_crop(self, map) ==
    IF self.y >= 0 /\ self.y < Len(map) /\ self.x >= 0 /\ self.x < Len(map[self.y + 1])
    THEN Some(map[self.y + 1][self.x + 1]) ELSE None

D12_offset(self, d) == [x |-> self.x + d[1], y |-> self.y + d[2]]

\* Point::neighbors
D12_neighbors(self, map) ==
    SelectSeq([d \in 1..4 |-> D12_offset(self, D12_DIRS[d])],
              LAMBDA q : D12_crop(q, map) = D12_crop(self, map))

\* count_corners without the concave corners
D12_count_corners_ConvexOnly(self, map) ==
    LET crop == D12_crop(self, map)
        neighbors == [d \in 1..4 |-> D12_crop(D12_offset(self, D12_DIRS[d]), map)]
    IN  Cardinality({i \in 1..4 : neighbors[i] # crop /\ neighbors[(i % 4) + 1] # crop})

\* Point::count_corners: the windows of cycle().tuple_windows().take(4) are the pairs
\* (neighbors[i], neighbors[i + 1]) around the plot, those of the interleaved iterator
\* with step_by(2) are (neighbors[i], diagonals[i], neighbors[i + 1])
D12_count_corners(self, map) ==
    LET crop == D12_crop(self, map)
        neighbors == [d \in 1..4 |-> D12_crop(D12_offset(self, D12_DIRS[d]), map)]
        diagonals == [d \in 1..4 |-> D12_crop(D12_offset(self, D12_DIAGONALS[d]), map)]
    IN  Cardinality({i \in 1..4 : neighbors[i] # crop /\ neighbors[(i % 4) + 1] # crop})
        + Cardinality({i \in 1..4 : /\ neighbors[i] = crop
                                    /\ diagonals[i] # crop
                                    /\ neighbors[(i % 4) + 1] = crop})

\* The `while let Some(plot) = stack.pop()` loop of bfs_flood on the record of its
\* locals. A flood of more than D12_MaxPlots plots stands for one that never ends.
D12_MaxPlots == 30

RECURSIVE D12_flood_loop(_, _, _)
D12_flood_loop(l, map, part2) ==
    IF l.stack = <<>> THEN Value([points |-> l.region, perimeter |-> l.perimeter,
                                  corners |-> l.corners])
    ELSE IF Cardinality(l.region) > D12_MaxPlots THEN Hang
    ELSE LET plot == l.stack[Len(l.stack)]
             neighbors == D12_neighbors(plot, map)
             perimeter_increase == 4 - Len(neighbors)
             stack == SubSeq(l.stack, 1, Len(l.stack) - 1)
                        \o SelectSeq(neighbors, LAMBDA q : q \notin l.region)
             inserted == plot \notin l.region
             perimeter == IF inserted THEN l.perimeter + perimeter_increase ELSE l.perimeter
             corners == IF inserted /\ part2 THEN l.corners + D12_count_corners(plot, map)
                        ELSE l.corners
         IN  IF Len(stack) + perimeter + corners >= 0
             THEN D12_flood_loop([stack |-> stack, region |-> l.region \cup {plot},
                                  perimeter |-> perimeter, corners |-> corners], map, part2)
             ELSE Hang

\* bfs_flood
D12_bfs_flood(start, map, part2) ==
    D12_flood_loop([stack |-> <<start>>, region |-> {}, perimeter |-> 0, corners |-> 0],
                   map, part2)

\* get_regions: the two loops over 0..GRID_SIZE, on the index i = y * GRID_SIZE + x
RECURSIVE D12_get_regions_loop(_, _, _, _)
D12_get_regions_loop(regions, i, map, part2) ==
    IF i >= D12_GRID_SIZE * D12_GRID_SIZE THEN Value(regions)
    ELSE LET point == [x |-> i % D12_GRID_SIZE, y |-> i \div D12_GRID_SIZE] IN
         IF \E r \in 1..Len(regions) : point \in regions[r].points
         THEN D12_get_regions_loop(regions, i + 1, map, part2)
         ELSE LET flooded == D12_bfs_flood(point, map, part2) IN
              IF flooded = Hang THEN Hang
              ELSE D12_get_regions_loop(Append(regions, flooded.v), i + 1, map, part2)

D12_get_regions(map, part2) == D12_get_regions_loop(<<>>, 0, map, part2)

RECURSIVE D12_sum_price(_, _)
D12_sum_price(regions, i) ==
    IF i > Len(regions) THEN 0
    ELSE (Cardinality(regions[i].points) * regions[i].corners) + D12_sum_price(regions, i + 1)

\* Day12::part_2
D12_part_2(inp) ==
    IF D12_get_regions(inp, TRUE) = Hang THEN Hang
    ELSE Value(D12_sum_price(D12_get_regions(inp, TRUE).v, 1))

\* parse_line and separated(1.., parse_line, line_ending) on the lines of the text: the
\* lines up to the first one that is not made of capital letters only
D12_Capitals == {"A", "B", "C", "D", "E"}

RECURSIVE D12_lines(_, _)
D12_lines(text, y) ==
    IF y > Len(text) \/ take_while(text[y], D12_Capitals) = <<>> THEN <<>>
    ELSE IF take_while(text[y], D12_Capitals) # text[y]
    THEN <<take_while(text[y], D12_Capitals)>>
    ELSE <<text[y]>> \o D12_lines(text, y + 1)

D12_parser(text) ==
    IF D12_lines(text, 1) = <<>> THEN ParseErr
    ELSE ParseOk(D12_lines(text, 1), drop(text, Len(D12_lines(text, 1))))

D12_INPUT ==
    << <<"A", "A", "A", "A">>,
       <<"B", "B", "C", "D">>,
       <<"B", "B", "C", "C">>,
       <<"E", "E", "E", "C">> >>

\* The texts: the example, the maps of GRID_SIZE rows out of D12_Rows, a map of five
\* rows and columns and maps smaller than GRID_SIZE.
D12_Rows ==
    { <<"A", "A", "A", "A">>, <<"A", "B", "B", "A">>, <<"A", "B", "A", "A">>,
      <<"A", "A", "B", "A">>, <<"B", "B", "B", "B">>, <<"A", "B", "A", "B">> }

D12_OtherTexts ==
    { << <<"A", "A", "A", "A", "A">>, <<"A", "B", "A", "B", "B">>,
         <<"A", "A", "B", "A", "A">>, <<"A", "B", "B", "A", "B">>,
         <<"A", "A", "A", "A", "B">> >>,
      << <<"A", "B">>, <<"B", "A">> >>,
      << <<"A">> >> }

D12_Texts == [1..D12_GRID_SIZE -> D12_Rows] \cup D12_OtherTexts \cup {D12_INPUT}

D12_Init ==
    /\ day = "day12"
    /\ raw \in D12_Texts
    /\ input = Nothing
    /\ work = Nothing
    /\ pc = "Idle"
    /\ out1 = Nothing
    /\ out2 = Nothing

\* Day12::parser(&mut raw)
D12_Parse ==
    /\ day = "day12" /\ pc = "Idle"
    /\ LET r == D12_parser(raw) IN
        IF r.ok THEN pc' = "Parsed" /\ input' = r.v
        ELSE pc' = "ParseError" /\ input' = input
    /\ UNCHANGED <<day, raw, work, out1, out2>>

\* Day12::part_2(&input); work keeps the regions of get_regions
D12_Part2 ==
    /\ day = "day12" /\ pc = "Parsed"
    /\ LET r == D12_part_2(input) IN
        IF r = Hang THEN pc' = "Hung" /\ out2' = out2 /\ work' = work
        ELSE /\ pc' = "SolvedPart2" /\ out2' = r
             /\ work' = [regions |-> D12_get_regions(input, TRUE).v]
    /\ UNCHANGED <<day, raw, input, out1>>

D12_Next == D12_Parse \/ D12_Part2

SpecD12 == D12_Init /\ [][D12_Next]_vars

(***************************************************************************)
(* C22: the corners of a region are its sides                              *)
(***************************************************************************)
C22_Plots(map) == {[x |-> x, y |-> y] : x \in 0..(Len(map[1]) - 1), y \in 0..(Len(map) - 1)}

C22_Crop(map, p) == map[p.y + 1][p.x + 1]

C22_Adjacent(p, q) ==
    \/ p.x = q.x /\ (p.y - q.y) \in {-1, 1}
    \/ p.y = q.y /\ (p.x - q.x) \in {-1, 1}

\* the plots connected to the plots of `reached` through plots of the same crop
RECURSIVE C22_Connected(_, _)
C22_Connected(map, reached) ==
    LET more == {q \in C22_Plots(map) \ reached :
                    \E p \in reached : C22_Adjacent(p, q) /\ C22_Crop(map, p) = C22_Crop(map, q)}
    IN  IF more = {} THEN reached ELSE C22_Connected(map, reached \cup more)

\* a unit of fence: a plot of the region and a direction in which the region ends
C22_Fences(points) ==
    {f \in points \X {"up", "right", "down", "left"} :
        [x |-> f[1].x + (CASE f[2] = "right" -> 1 [] f[2] = "left" -> -1 [] OTHER -> 0),
         y |-> f[1].y + (CASE f[2] = "down" -> 1 [] f[2] = "up" -> -1 [] OTHER -> 0)]
            \notin points}

\* the plot before f along the fence: to the left for a fence above or below the
\* plot, above for a fence on its left or right
C22_Before(f) ==
    IF f[2] \in {"up", "down"} THEN <<[x |-> f[1].x - 1, y |-> f[1].y], f[2]>>
    ELSE <<[x |-> f[1].x, y |-> f[1].y - 1], f[2]>>

\* the number of straight sides: the units of fence that begin one
C22_Sides(points) ==
    Cardinality({f \in C22_Fences(points) : C22_Before(f) \notin C22_Fences(points)})

RECURSIVE C22_SumPrice(_, _)
C22_SumPrice(regions, i) ==
    IF i > Len(regions) THEN 0
    ELSE (Cardinality(regions[i].points) * C22_Sides(regions[i].points))
            + C22_SumPrice(regions, i + 1)

C22_Solved == day = "day12" /\ pc = "SolvedPart2"

\* C22: every region found by bfs_flood is a maximal set of orthogonally connected
\* plots of the same crop, the sum of count_corners over its plots is the number of
\* its straight fence sides, inner fences included, and part_2 is the sum over the
\* regions of area x sides; it is 80 for the 4x4 example.
C22_CornersAreSides ==
    C22_Solved =>
        /\ \A i \in 1..Len(work.regions) :
            /\ \E p \in work.regions[i].points :
                    work.regions[i].points = C22_Connected(input, {p})
            /\ work.regions[i].corners = C22_Sides(work.regions[i].points)
        /\ out2 = Value(C22_SumPrice(work.regions, 1))
        /\ raw = D12_INPUT => out2 = Value(80)

\* a region that encloses another one: the inner fence adds four sides
C22_Witness ==
    /\ C22_Solved
    /\ input = << <<"A", "A", "A", "A">>, <<"A", "B", "B", "A">>,
                  <<"A", "A", "A", "A">>, <<"A", "A", "A", "A">> >>
    /\ Len(work.regions) = 2
    /\ work.regions[1].corners = 8 /\ work.regions[2].corners = 4
    /\ out2 = Value((14 * 8) + (2 * 4))

\* two plots of one region that touch by a corner only, on both sides of a fence
C22_WitnessDiagonal ==
    /\ C22_Solved
    /\ input = << <<"A", "A", "A", "A">>, <<"A", "B", "A", "A">>,
                  <<"A", "A", "B", "A">>, <<"A", "A", "A", "A">> >>
    /\ Len(work.regions) = 3 /\ work.regions[1].corners = 12

\* the example: 80
C22_WitnessExample ==
    /\ C22_Solved /\ raw = D12_INPUT /\ out2 = Value(80)

(***************************************************************************)
(* Day 20: cheats on the race track                                        *)
(***************************************************************************)
\* GRID_SIZE and SAVINGS_LIMT of the test build
D20_GRID_SIZE == 15
D20_SAVINGS_LIMT == 50

D20_DIRS == << <<0, -1>>, <<1, 0>>, <<0, 1>>, <<-1, 0>> >>

D20_saturating_sub(a, b) == IF a >= b THEN a - b ELSE 0

\* track.get_index_of(&pos) on the ordered set kept as a sequence without repetition
D20_get_index_of(track, pos) ==
    IF \E i \in 1..Len(track) : track[i] = pos
    THEN Some((CHOOSE i \in 1..Len(track) : track[i] = pos) - 1) ELSE None

\* the filter_map of count_possible_cheats: the neighbours inside the grid
D20_neighbours_inside(candidate) ==
    SelectSeq([d \in 1..4 |-> <<candidate[1] + D20_DIRS[d][1], candidate[2] + D20_DIRS[d][2]>>],
              LAMBDA n : ~(n[1] < 0 \/ n[2] < 0 \/ n[1] > D20_GRID_SIZE - 1
                                \/ n[2] > D20_GRID_SIZE - 1))

\* the test of a candidate that does not subtract the length of the cheat
D20_saves_enough_NoSteps(track, curr_time, candidate, steps) ==
    /\ D20_get_index_of(track, candidate) # None
    /\ D20_saturating_sub(D20_get_index_of(track, candidate)[1], curr_time)
            >= D20_SAVINGS_LIMT

\* the `if let Some(time)` of count_possible_cheats: the candidate is counted
D20_saves_enough(track, curr_time, candidate, steps) ==
    /\ D20_get_index_of(track, candidate) # None
    /\ D20_saturating_sub(D20_saturating_sub(D20_get_index_of(track, candidate)[1],
                                             curr_time), steps) >= D20_SAVINGS_LIMT

\* the `for (x, y) in neighbours` loops of the candidates i.. of the queue: the
\* positions pushed to the queue and the positions seen
RECURSIVE D20_push_neighbours(_, _, _, _)
D20_push_neighbours(candidates, i, seen, pushed) ==
    IF i > Len(candidates) THEN [seen |-> seen, pushed |-> pushed]
    ELSE LET new == SelectSeq(D20_neighbours_inside(candidates[i]),
                              LAMBDA n : n \notin seen)
             now_seen == seen \cup {new[k] : k \in 1..Len(new)}
         IN  IF Cardinality(now_seen) + Len(new) >= 0
             THEN D20_push_neighbours(candidates, i + 1, now_seen, pushed \o new)
             ELSE [seen |-> seen, pushed |-> pushed]

\* The `while let Some((candidate, rem_moves)) = candidates.pop_front()` loop. The
\* queue is first in, first out, and a candidate is pushed with one move less than
\* the candidate it was reached from: the candidates in the queue at one time with
\* rem_moves moves left are followed by all those with rem_moves - 1, and one step of
\* this recursion pops all of them.
RECURSIVE D20_cheats_loop(_, _, _, _, _, _, _)
D20_cheats_loop(candidates, rem_moves, seen, count, track, curr_time, moves) ==
    LET counted == Cardinality({k \in 1..Len(candidates) :
                        D20_saves_enough(track, curr_time, candidates[k], moves - rem_moves)})
        next == D20_push_neighbours(candidates, 1, seen, <<>>)
    IN  IF candidates = <<>> THEN count
        ELSE IF rem_moves = 0 THEN count + counted
        ELSE IF Len(next.pushed) + counted >= 0
        THEN D20_cheats_loop(next.pushed, rem_moves - 1, next.seen, count + counted, track,
                             curr_time, moves)
        ELSE count

\* count_possible_cheats: Panic for the unwrap of a position that is not on the track
D20_count_possible_cheats(pos, track, moves) ==
    IF D20_get_index_of(track, pos) = None THEN Panic
    ELSE Value(D20_cheats_loop(<<pos>>, moves, {pos}, 0, track,
                               D20_get_index_of(track, pos)[1], moves))

\* Grid::neighbours without diagonals
D20_neighbours(grid, p) ==
    {n \in grid : \/ n[1] = p[1] /\ (n[2] - p[2]) \in {-1, 1}
                  \/ n[2] = p[2] /\ (n[1] - p[1]) \in {-1, 1}}

\* parse_grid: the lines up to the first one that has another character
D20_Chars == {"#", ".", "E", "S"}

RECURSIVE D20_parse_grid(_, _)
D20_parse_grid(text, y) ==
    IF y > Len(text) \/ take_while(text[y], D20_Chars) = <<>> THEN <<>>
    ELSE IF take_while(text[y], D20_Chars) # text[y] THEN <<take_while(text[y], D20_Chars)>>
    ELSE <<text[y]>> \o D20_parse_grid(text, y + 1)

RECURSIVE D20_flatten(_)
D20_flatten(rows) == IF rows = <<>> THEN <<>> ELSE Head(rows) \o D20_flatten(Tail(rows))

\* the last cell that holds c, as (i % GRID_SIZE, i / GRID_SIZE), or (0, 0)
D20_last_of(flat, c) ==
    IF \E i \in 1..Len(flat) : flat[i] = c
    THEN LET i == CHOOSE i \in 1..Len(flat) :
                    flat[i] = c /\ \A j \in (i + 1)..Len(flat) : flat[j] # c
         IN  <<(i - 1) % D20_GRID_SIZE, (i - 1) \div D20_GRID_SIZE>>
    ELSE <<0, 0>>

\* Day20::parser
D20_parser(text) ==
    LET rows == D20_parse_grid(text, 1)
        flat == D20_flatten(rows)
    IN  IF rows = <<>> THEN ParseErr
        ELSE ParseOk([grid |-> {<<(i - 1) % D20_GRID_SIZE, (i - 1) \div D20_GRID_SIZE>> :
                                    i \in {j \in 1..Len(flat) : flat[j] # "#"}},
                      start |-> D20_last_of(flat, "S"),
                      end |-> D20_last_of(flat, "E")], drop(text, Len(rows)))

D20_INPUT ==
    << <<"#", "#", "#", "#", "#", "#", "#", "#", "#", "#", "#", "#", "#", "#", "#">>,
       <<"#", ".", ".", ".", "#", ".", ".", ".", "#", ".", ".", ".", ".", ".", "#">>,
       <<"#", ".", "#", ".", "#", ".", "#", ".", "#", ".", "#", "#", "#", ".", "#">>,
       <<"#", "S", "#", ".", ".", ".", "#", ".", "#", ".", "#", ".", ".", ".", "#">>,
       <<"#", "#", "#", "#", "#", "#", "#", ".", "#", ".", "#", ".", "#", "#", "#">>,
       <<"#", "#", "#", "#", "#", "#", "#", ".", "#", ".", "#", ".", ".", ".", "#">>,
       <<"#", "#", "#", "#", "#", "#", "#", ".", "#", ".", "#", "#", "#", ".", "#">>,
       <<"#", "#", "#", ".", ".", "E", "#", ".", ".", ".", "#", ".", ".", ".", "#">>,
       <<"#", "#", "#", ".", "#", "#", "#", "#", "#", "#", "#", ".", "#", "#", "#">>,
       <<"#", ".", ".", ".", "#", "#", "#", ".", ".", ".", "#", ".", ".", ".", "#">>,
       <<"#", ".", "#", "#", "#", "#", "#", ".", "#", ".", "#", "#", "#", ".", "#">>,
       <<"#", ".", "#", ".", ".", ".", "#", ".", "#", ".", "#", ".", ".", ".", "#">>,
       <<"#", ".", "#", ".", "#", ".", "#", ".", "#", ".", "#", ".", "#", "#", "#">>,
       <<"#", ".", ".", ".", "#", ".", ".", ".", "#", ".", ".", ".", "#", "#", "#">>,
       <<"#", "#", "#", "#", "#", "#", "#", "#", "#", "#", "#", "#", "#", "#", "#">> >>

\* A track that runs along every other row of a map of GRID_SIZE columns, from S in
\* the first open row to E in the last one.
D20_Serpentine(rows) ==
    [r \in 1..rows |->
        [c \in 1..D20_GRID_SIZE |->
            LET x == c - 1
                y == r - 1
            IN  IF <<x, y>> = <<1, 1>> THEN "S"
                ELSE IF y = rows - 2 /\ x = (IF y % 4 = 1 THEN D20_GRID_SIZE - 2 ELSE 1) THEN "E"
                ELSE IF y = 0 \/ y = rows - 1 \/ x = 0 \/ x = D20_GRID_SIZE - 1 THEN "#"
                ELSE IF y % 2 = 1 THEN "."
                ELSE IF y % 4 = 2 /\ x = D20_GRID_SIZE - 2 THEN "."
                ELSE IF y % 4 = 0 /\ x = 1 THEN "."
                ELSE "#"]]

\* The texts: the example, the serpentine of GRID_SIZE rows and one of two rows more.
D20_Texts ==
    {D20_INPUT, D20_Serpentine(D20_GRID_SIZE), D20_Serpentine(D20_GRID_SIZE + 2)}

D20_Init ==
    /\ day = "day20"
    /\ raw \in D20_Texts
    /\ input = Nothing
    /\ work = Nothing
    /\ pc = "Idle"
    /\ out1 = Nothing
    /\ out2 = Nothing

\* Day20::parser(&mut raw)
D20_Parse ==
    /\ day = "day20" /\ pc = "Idle"
    /\ LET r == D20_parser(raw) IN
        IF r.ok THEN pc' = "Parsed" /\ input' = r.v
        ELSE pc' = "ParseError" /\ input' = input
    /\ UNCHANGED <<day, raw, work, out1, out2>>

\* part_1 (2 moves) or part_2 (20 moves) starts get_track
D20_PartBegin ==
    /\ day = "day20" /\ pc = "Parsed"
    /\ \E part \in {1, 2} :
        /\ work' = [moves |-> IF part = 1 THEN 2 ELSE 20, track |-> <<input.start>>,
                    current |-> input.start, i |-> 0, sum |-> 0, count |-> Nothing]
        /\ pc' = IF part = 1 THEN "SolvingPart1" ELSE "SolvingPart2"
    /\ UNCHANGED <<day, raw, input, out1, out2>>

\* One turn of the `while current != race.end` loop of get_track. The neighbour taken
\* is the first one in the order of Grid::neighbours that is not on the track; without
\* such a neighbour the loop turns forever.
D20_TrackStep ==
    /\ day = "day20" /\ pc \in {"SolvingPart1", "SolvingPart2"}
    /\ work.current # input.end
    /\ LET free == {n \in D20_neighbours(input.grid, work.current) :
                        D20_get_index_of(work.track, n) = None}
       IN  IF free = {} THEN pc' = "Hung" /\ work' = work
           ELSE \E n \in free :
                    /\ work' = [work EXCEPT !.track = Append(@, n), !.current = n]
                    /\ pc' = pc
    /\ UNCHANGED <<day, raw, input, out1, out2>>

\* one call of count_possible_cheats by the map/sum of the part
D20_CountStep ==
    /\ day = "day20" /\ pc \in {"SolvingPart1", "SolvingPart2"}
    /\ work.current = input.end
    /\ work.i < Len(work.track)
    /\ LET r == D20_count_possible_cheats(work.track[work.i + 1], work.track, work.moves) IN
        /\ work' = [work EXCEPT !.i = @ + 1, !.count = r,
                                !.sum = IF r = Panic THEN @ ELSE @ + r.v]
        /\ pc' = IF r = Panic THEN "Aborted" ELSE pc
    /\ UNCHANGED <<day, raw, input, out1, out2>>

\* the sum is returned
D20_PartEnd ==
    /\ day = "day20" /\ pc \in {"SolvingPart1", "SolvingPart2"}
    /\ work.current = input.end
    /\ work.i = Len(work.track)
    /\ IF pc = "SolvingPart1"
       THEN pc' = "SolvedPart1" /\ out1' = Value(work.sum) /\ out2' = out2
       ELSE pc' = "SolvedPart2" /\ out2' = Value(work.sum) /\ out1' = out1
    /\ UNCHANGED <<day, raw, input, work>>

D20_Next == D20_Parse \/ D20_PartBegin \/ D20_TrackStep \/ D20_CountStep \/ D20_PartEnd

SpecD20 == D20_Init /\ [][D20_Next]_vars

(***************************************************************************)
(* C23: the cheats counted from a position                                 *)
(***************************************************************************)
C23_Abs(n) == IF n < 0 THEN 0 - n ELSE n

C23_Manhattan(p, q) == C23_Abs(p[1] - q[1]) + C23_Abs(p[2] - q[2])

\* index(q) in the ordered track
C23_Index(track, q) == CHOOSE i \in 0..(Len(track) - 1) : track[i + 1] = q

\* the number of track positions q at a distance d of at most moves from pos with
\* index(q) - index(pos) - d >= SAVINGS_LIMT
C23_Count(pos, track, moves) ==
    Cardinality({q \in {track[i] : i \in 1..Len(track)} :
        /\ C23_Manhattan(pos, q) <= moves
        /\ C23_Index(track, q) - C23_Index(track, pos) - C23_Manhattan(pos, q)
                >= D20_SAVINGS_LIMT})

C23_Counted ==
    /\ day = "day20" /\ pc \in {"SolvingPart1", "SolvingPart2", "SolvedPart1", "SolvedPart2"}
    /\ work.i >= 1

\* the call made last is the stated number
C23_LastCall ==
    work.count = Value(C23_Count(work.track[work.i], work.track, work.moves))

C23_InsideGrid(track) ==
    \A i \in 1..Len(track) :
        track[i][1] \in 0..(D20_GRID_SIZE - 1) /\ track[i][2] \in 0..(D20_GRID_SIZE - 1)

C23_WitnessExample1 ==
    /\ day = "day20" /\ raw = D20_INPUT /\ pc = "SolvedPart1" /\ out1 = Value(1)

\* the example with 20 moves
C23_WitnessExample2 ==
    /\ day = "day20" /\ raw = D20_INPUT /\ pc = "SolvedPart2" /\ out2 = Value(285)

\* a track that leaves the GRID_SIZE rows: the positions below them are not counted
C23_WitnessOutside ==
    /\ C23_Counted /\ ~C23_InsideGrid(work.track) /\ ~C23_LastCall

====
